---- MODULE Spec2Model ----
(***************************************************************************)
(* webpage-extract: the extraction operations (extract_tables,             *)
(* extract_readable_markdown, extract_metadata) and the fetch that         *)
(* precedes them, as a state machine over calls in flight.                 *)
(*                                                                         *)
(* Strings are sequences of symbols: a symbol is a run of characters that  *)
(* no operation of the program splits ("x", " ", "\n", "og:", "title").    *)
(* A document is the node tree the loader (cheerio.load) builds: a         *)
(* sequence of element nodes in document order, each with the index of     *)
(* its parent (0: the document), its attributes and its own text.          *)
(***************************************************************************)
EXTENDS Integers, Sequences, FiniteSets, TLC

VARIABLES
  pc,       \* where each call stands: off, idle, fetching, reading, resume, done
  op,       \* the operation called
  input,    \* its html_or_url argument
  timer,    \* the timeout timer of its fetch: none, armed, cleared, fired
  awaited,  \* what fetchHtmlOrUseProvided resolves to: html, source, error
  result,   \* the response returned
  origin,   \* the table elements behind the records of the response
  dom,      \* the tree the call loaded, as the call left it
  prev,     \* the previous call of the same caller
  calls,    \* calls started by the caller
  fetches,  \* requests sent during the call
  loads,    \* documents parsed during the call
  network,  \* what the network did for the request of the call
  now,      \* the clock
  http,     \* the HTTP request each handler serves and the responses it sent
  sessions  \* the session store of the session transport

toolVars == <<pc, op, input, timer, awaited, result, origin, dom, prev, calls,
              fetches, loads, network, now>>

transportVars == <<http, sessions>>

vars == <<pc, op, input, timer, awaited, result, origin, dom, prev, calls,
          fetches, loads, network, now, http, sessions>>

(***************************************************************************)
(* Bounds of the model.                                                    *)
(***************************************************************************)
NProcs == 2
MaxClock == 1
MaxCalls == 2
MaxTableNodes == 5
MaxMarkdownNodes == 3
MaxMetaNodes == 3
MaxBlocks == 2
MaxAuthorNodes == 3

Procs == 1..NProcs

(***************************************************************************)
(* Strings.                                                                *)
(***************************************************************************)
Undefined == <<"<undefined>">>
Null == <<"<null>">>
Empty == <<>>

IsWhitespace(c) == c \in {" ", "\n"}

RECURSIVE TrimStart(_)
TrimStart(s) ==
  IF s # <<>> /\ IsWhitespace(Head(s)) THEN TrimStart(Tail(s)) ELSE s

RECURSIVE TrimEnd(_)
TrimEnd(s) ==
  IF s # <<>> /\ IsWhitespace(s[Len(s)])
  THEN TrimEnd(SubSeq(s, 1, Len(s) - 1)) ELSE s

\* String.prototype.trim
Trim(s) == TrimEnd(TrimStart(s))

\* s.replace(/\s+/g, " ")
RECURSIVE CollapseWhitespace(_)
CollapseWhitespace(s) ==
  IF s = <<>> THEN <<>>
  ELSE IF IsWhitespace(Head(s))
       THEN <<" ">> \o CollapseWhitespace(TrimStart(s))
       ELSE <<Head(s)>> \o CollapseWhitespace(Tail(s))

\* a || b on strings: the empty string and undefined are falsy
Falsy(s) == s = Empty \/ s = Undefined
OrElse(a, b) == IF Falsy(a) THEN b ELSE a

\* s.includes(sub)
Includes(s, sub) ==
  \E i \in 0..(Len(s) - Len(sub)) : SubSeq(s, i + 1, i + Len(sub)) = sub

Max(a, b) == IF a >= b THEN a ELSE b

\* the element of a one-element set: { e(x) : x \in {v} } computes v once
Only(S) == CHOOSE x \in S : TRUE

RECURSIVE Concat(_)
Concat(ss) == IF ss = <<>> THEN <<>> ELSE Head(ss) \o Concat(Tail(ss))

(***************************************************************************)
(* The node tree.                                                          *)
(***************************************************************************)
Node(tag, parent, attrs, text) ==
  [tag |-> tag, parent |-> parent, attrs |-> attrs, text |-> text]

NoAttrs == <<>>

\* cheerio.load(html): every node of the document is in the tree
Load(doc) == [nodes |-> doc, live |-> 1..Len(doc)]

RECURSIVE Ancestors(_, _)
Ancestors(d, i) ==
  IF d[i].parent = 0 THEN {} ELSE {d[i].parent} \cup Ancestors(d, d[i].parent)

TagOf(d, i) == IF i = 0 THEN "#document" ELSE d[i].tag

\* where the next element of a document in the making can stand: below the
\* last element, below one of its ancestors, or below the document
RightmostPath(d) ==
  IF d = <<>> THEN {0} ELSE {0, Len(d)} \cup Ancestors(d, Len(d))

Descendants(T, i) ==
  {j \in T.live : i \in Ancestors(T.nodes, j)}

\* $el.attr(name)
Attr(T, i, a) ==
  IF a \in DOMAIN T.nodes[i].attrs THEN T.nodes[i].attrs[a] ELSE Undefined

\* the elements of S that satisfy Test, in document order
InOrder(T, S, Test(_)) ==
  SelectSeq([i \in 1..Len(T.nodes) |-> i],
            LAMBDA i : i \in S /\ i \in T.live /\ Test(i))

\* $el.find(selector) for a tag selector list
Find(T, i, tags) ==
  InOrder(T, Descendants(T, i), LAMBDA j : T.nodes[j].tag \in tags)

\* $(selector) for a tag selector list
Query(T, tags) == InOrder(T, T.live, LAMBDA j : T.nodes[j].tag \in tags)

\* $el.parents(tag)
Parents(T, i, tag) ==
  {a \in Ancestors(T.nodes, i) : T.nodes[a].tag = tag}

\* $el.text(): the text of the element and of its descendants
TextOf(T, i) ==
  Concat([k \in 1..Len(T.nodes) |->
            IF k \in T.live /\ (k = i \/ i \in Ancestors(T.nodes, k))
            THEN T.nodes[k].text ELSE <<>>])

(***************************************************************************)
(* Input documents for the markdown engine: every tree of at most          *)
(* MaxMarkdownNodes elements among nav, main, div.sidebar, h1, h2, p and   *)
(* pre, the headings, paragraphs and pre without children.                 *)
(***************************************************************************)
PreText == <<"a", "\n", "\n", "\n", "b", "\n", "\n", "\n", "\n", "c">>

MarkdownChildren(d, parent) ==
  IF TagOf(d, parent) \in {"#document", "nav", "main", "div"}
  THEN {Node("nav", parent, NoAttrs, tx) : tx \in {<<>>, <<"X">>}}
       \cup {Node("main", parent, NoAttrs, <<>>),
             Node("div", parent, [class |-> <<"sidebar">>], <<>>),
             Node("h1", parent, NoAttrs, <<"T">>),
             Node("h2", parent, NoAttrs, <<" ", "U", "\n">>),
             Node("pre", parent, NoAttrs, PreText)}
       \cup {Node("p", parent, NoAttrs, tx) : tx \in {<<"Y">>, <<"X">>}}
  ELSE {}

GrowMarkdown(d) ==
  UNION {{Append(d, n) : n \in MarkdownChildren(d, parent)} :
           parent \in RightmostPath(d)}

RECURSIVE MarkdownDocsUpTo(_)
MarkdownDocsUpTo(n) ==
  IF n = 0 THEN {<<>>}
  ELSE Only({ S \cup UNION {GrowMarkdown(d) : d \in S} :
              S \in {MarkdownDocsUpTo(n - 1)} })

MarkdownScenarios ==
  { \* <nav>X</nav><main><h1>T</h1><p>Y</p></main>
    << Node("nav", 0, NoAttrs, <<"X">>),
       Node("main", 0, NoAttrs, <<>>),
       Node("h1", 2, NoAttrs, <<"T">>), Node("p", 2, NoAttrs, <<"Y">>) >>,
    \* navigation, header, main, footer and aside
    << Node("nav", 0, NoAttrs, <<"Navigation">>),
       Node("header", 0, NoAttrs, <<"Header">>),
       Node("main", 0, NoAttrs, <<>>),
       Node("h1", 3, NoAttrs, <<"Main">>), Node("p", 3, NoAttrs, <<"Article">>),
       Node("footer", 0, NoAttrs, <<"Footer">>),
       Node("aside", 0, NoAttrs, <<"Sidebar">>) >>,
    \* headings in the navigation and in a hidden block, around the content
    << Node("h3", 0, NoAttrs, <<"A">>),
       Node("nav", 0, NoAttrs, <<>>),
       Node("h2", 2, NoAttrs, <<"N">>),
       Node("div", 0, [class |-> <<"post">>], <<>>),
       Node("h1", 4, NoAttrs, <<"T">>),
       Node("pre", 4, NoAttrs, PreText),
       Node("div", 4, ("aria-hidden" :> <<"true">>), <<>>),
       Node("h6", 7, NoAttrs, <<"H">>),
       Node("h4", 0, NoAttrs, <<"B">>) >> }

(***************************************************************************)
(* Values of the host language and the response envelopes.                 *)
(***************************************************************************)
\* a string: the symbols the program inspects, and the tree the loader
\* builds when the string is handed to it as markup
Str(s, doc) == [t |-> "string", s |-> s, doc |-> doc]
JSUndefined == [t |-> "undefined", s |-> <<>>, doc |-> <<>>]
JSNumber(n) == [t |-> "number", s |-> <<n>>, doc |-> <<>>]

Markup(doc) == Str(<<"<markup>">>, doc)

\* !v
Not(v) ==
  CASE v.t = "undefined" -> TRUE
    [] v.t = "number" -> v.s = <<"0">>
    [] OTHER -> v.s = <<>>

\* typeof v
TypeOf(v) == v.t

NoResult == [pending |-> TRUE]

createSuccessResponse(data, src, warnings) ==
  [ok |-> TRUE,
   data |-> data,
   meta |-> [source |-> src,
             retrieved_at |-> now,
             pagination |-> [next_cursor |-> Null],
             warnings |-> warnings]]

\* a failure that carries data as well
createErrorResponse_withData(code, message, details) ==
  [ok |-> FALSE,
   data |-> Null,
   error |-> [code |-> code, message |-> message, details |-> details],
   meta |-> [retrieved_at |-> now]]

createErrorResponse(code, message, details) ==
  [ok |-> FALSE,
   error |-> [code |-> code, message |-> message, details |-> details],
   meta |-> [retrieved_at |-> now]]

NoDetails == <<>>

(***************************************************************************)
(* extract_tables.                                                         *)
(***************************************************************************)
getCellText(T, cell) == CollapseWhitespace(Trim(TextOf(T, cell)))

CellTexts(T, cells) == [k \in 1..Len(cells) |-> getCellText(T, cells[k])]

\* $table.find("thead tr")
TheadRows(T, t) ==
  InOrder(T, Descendants(T, t),
          LAMBDA j : /\ T.nodes[j].tag = "tr"
                     /\ \E a \in Parents(T, j, "thead") : a \in Descendants(T, t))

\* a variant that leaves a first row taken as the header among the rows
headersFrom_keepsHeaderRow(T, theadRows, allRows) ==
  IF Len(theadRows) > 0
  THEN [headers |-> CellTexts(T, Find(T, theadRows[1], {"th", "td"})),
        usedFirstRowAsHeader |-> FALSE]
  ELSE IF Len(allRows) = 0
  THEN [headers |-> <<>>, usedFirstRowAsHeader |-> FALSE]
  ELSE IF Len(Find(T, allRows[1], {"th"})) > 0
  THEN [headers |-> CellTexts(T, Find(T, allRows[1], {"th", "td"})),
        usedFirstRowAsHeader |-> FALSE]
  ELSE [headers |-> [k \in 1..Len(Find(T, allRows[1], {"th", "td"})) |-> Empty],
        usedFirstRowAsHeader |-> FALSE]

\* the headers: of the first row of the thead, else of a first row that
\* holds a th, else one empty string for each cell of the first row
headersFrom(T, theadRows, allRows) ==
  IF Len(theadRows) > 0
  THEN [headers |-> CellTexts(T, Find(T, theadRows[1], {"th", "td"})),
        usedFirstRowAsHeader |-> FALSE]
  ELSE IF Len(allRows) = 0
  THEN [headers |-> <<>>, usedFirstRowAsHeader |-> FALSE]
  ELSE IF Len(Find(T, allRows[1], {"th"})) > 0
  THEN [headers |-> CellTexts(T, Find(T, allRows[1], {"th", "td"})),
        usedFirstRowAsHeader |-> TRUE]
  ELSE [headers |-> [k \in 1..Len(Find(T, allRows[1], {"th", "td"})) |-> Empty],
        usedFirstRowAsHeader |-> FALSE]

extractHeaders(T, t) ==
  Only({ headersFrom(T, TheadRows(T, t), allRows) : allRows \in {Find(T, t, {"tr"})} })

\* a variant that reads the td cells of a row only
rowsFrom_dataCellsOnly(T, allRows, startIndex) ==
  Only({ [k \in 1..Len(kept) |-> CellTexts(T, Find(T, kept[k], {"td"}))] :
         kept \in {SelectSeq(SubSeq(allRows, startIndex + 1, Len(allRows)),
                     LAMBDA r : /\ Parents(T, r, "thead") = {}
                                /\ Len(Find(T, r, {"td", "th"})) > 0)} })

\* the rows: every tr from startIndex on that is not in a thead and has cells
rowsFrom(T, allRows, startIndex) ==
  Only({ [k \in 1..Len(kept) |-> CellTexts(T, Find(T, kept[k], {"td", "th"}))] :
         kept \in {SelectSeq(SubSeq(allRows, startIndex + 1, Len(allRows)),
                     LAMBDA r : /\ Parents(T, r, "thead") = {}
                                /\ Len(Find(T, r, {"td", "th"})) > 0)} })

\* a variant that takes the rows of the table itself, not those of the
\* tables inside it
extractRows_ownRows(T, t, usedFirstRowAsHeader) ==
  Only({ rowsFrom(T, allRows, IF usedFirstRowAsHeader THEN 1 ELSE 0) :
         allRows \in {SelectSeq(Find(T, t, {"tr"}),
                        LAMBDA r : \A a \in Parents(T, r, "table") : a <= t)} })

extractRows(T, t, usedFirstRowAsHeader) ==
  Only({ rowsFrom(T, allRows, IF usedFirstRowAsHeader THEN 1 ELSE 0) :
         allRows \in {Find(T, t, {"tr"})} })

RECURSIVE MaxLen(_)
MaxLen(rows) ==
  IF rows = <<>> THEN 0 ELSE Max(Len(Head(rows)), MaxLen(Tail(rows)))

PadTo(row, w) == row \o [k \in 1..(w - Len(row)) |-> Empty]

\* a variant that leaves the rows as they were read
normalizeRows_unpadded(rows, maxColumns) == rows

normalizeRows(rows, maxColumns) ==
  [k \in 1..Len(rows) |-> PadTo(rows[k], maxColumns)]

caption(T, t) ==
  LET c == Find(T, t, {"caption"})
  IN  IF Len(c) = 0 THEN Undefined
      ELSE OrElse(Trim(TextOf(T, c[1])), Undefined)

NoTable == [headers |-> <<>>, rows |-> <<>>, caption |-> Null]

\* a variant that emits a table for its rows alone
tableFrom_rowsOnly(T, t, headers, rows, maxColumns) ==
  IF Len(rows) = 0
  THEN NoTable
  ELSE [headers |-> PadTo(headers, maxColumns),
        rows |-> normalizeRows(rows, maxColumns),
        caption |-> caption(T, t)]

\* the record of a table from its headers and rows as read
tableFrom(T, t, headers, rows, maxColumns) ==
  IF Len(rows) = 0 /\ \A k \in 1..Len(headers) : headers[k] = Empty
  THEN NoTable
  ELSE [headers |-> PadTo(headers, maxColumns),
        rows |-> normalizeRows(rows, maxColumns),
        caption |-> caption(T, t)]

tableFromHeaders(T, t, h) ==
  Only({ tableFrom(T, t, h.headers, rows, Max(Len(h.headers), MaxLen(rows))) :
         rows \in {extractRows(T, t, h.usedFirstRowAsHeader)} })

extractTable(T, t) ==
  Only({ tableFromHeaders(T, t, h) : h \in {extractHeaders(T, t)} })

\* className.toLowerCase(): the symbols with a capital are those below
toLowerCase(s) ==
  [k \in 1..Len(s) |->
     CASE s[k] = "Layout" -> "layout"
       [] s[k] = "Wrapper" -> "wrapper"
       [] s[k] = "Container" -> "container"
       [] s[k] = "Frame" -> "frame"
       [] OTHER -> s[k]]

layoutClasses == <<"layout", "wrapper", "container", "frame">>

\* a variant that compares the class as it is written
hasLayoutClass_caseSensitive(className) ==
  \E k \in 1..Len(layoutClasses) : Includes(className, <<layoutClasses[k]>>)

\* layoutClasses.some((cls) => className.toLowerCase().includes(cls))
hasLayoutClass(className) ==
  \E k \in 1..Len(layoutClasses) :
    Includes(toLowerCase(className), <<layoutClasses[k]>>)

\* a variant that does not look at the role
isLayoutTable_ignoringRole(T, t) ==
  \/ hasLayoutClass(OrElse(Attr(T, t, "class"), <<>>))
  \/ Cardinality(Parents(T, t, "table")) > 1

isLayoutTable(T, t) ==
  \/ Attr(T, t, "role") = <<"presentation">>
  \/ Attr(T, t, "role") = <<"none">>
  \/ hasLayoutClass(OrElse(Attr(T, t, "class"), <<>>))
  \/ Cardinality(Parents(T, t, "table")) > 1

\* $("table").each(...): the table elements that produce a record
EmittingTables(T) ==
  SelectSeq(Query(T, {"table"}),
            LAMBDA t : ~isLayoutTable(T, t) /\ extractTable(T, t) # NoTable)

(***************************************************************************)
(* The synchronous part of an operation, from the loaded tree to the       *)
(* response: the response, the table elements behind its records, and the  *)
(* tree as the operation leaves it.                                        *)
(***************************************************************************)
\* the warning is never attached
tablesResponseFrom_noWarning(T, src, emitting, tables) ==
  [response |-> createSuccessResponse(
                  [tables |-> tables, count |-> Len(tables)], src, <<>>),
   origin |-> emitting,
   tree |-> T]

tablesResponseFrom(T, src, emitting, tables) ==
  [response |-> createSuccessResponse(
                  [tables |-> tables, count |-> Len(tables)], src,
                  IF Len(tables) = 0
                  THEN <<"No data tables found in the document">> ELSE <<>>),
   origin |-> emitting,
   tree |-> T]

tablesResponse(T, src) ==
  Only({ tablesResponseFrom(T, src, emitting,
           [k \in 1..Len(emitting) |-> extractTable(T, emitting[k])]) :
         emitting \in {EmittingTables(T)} })

(***************************************************************************)
(* extract_readable_markdown.                                              *)
(***************************************************************************)
Tag(name) == [kind |-> "tag", name |-> name, value |-> <<>>]
Class(name) == [kind |-> "class", name |-> "class", value |-> name]
Id(name) == [kind |-> "id", name |-> "id", value |-> name]
AttrIs(name, value) == [kind |-> "attr", name |-> name, value |-> value]
TagAttr(tag, name, value) ==
  [kind |-> "tagattr", name |-> name, value |-> value, tag |-> tag]
TagHas(tag, name) == [kind |-> "taghas", name |-> name, tag |-> tag]

ELEMENTS_TO_REMOVE ==
  << Tag("script"), Tag("style"), Tag("noscript"), Tag("iframe"), Tag("nav"),
     Tag("header"), Tag("footer"), Tag("aside"), Tag("form"), Tag("button"),
     Tag("input"), Tag("select"), Tag("textarea"),
     Class(<<"nav">>), Class(<<"nav", "bar">>), Class(<<"nav", "igation">>),
     Class(<<"menu">>), Class(<<"sidebar">>), Class(<<"ad", "vert", "isement">>),
     Class(<<"ad">>), Class(<<"ad", "s">>), Class(<<"ad", "vert">>),
     Class(<<"social">>), Class(<<"social", "-", "share">>), Class(<<"share">>),
     Class(<<"comment", "s">>), Class(<<"comment">>), Class(<<"related">>),
     Class(<<"related", "-", "post", "s">>), Class(<<"footer">>),
     Class(<<"header">>), Class(<<"cookie">>), Class(<<"popup">>),
     Class(<<"modal">>), Class(<<"newsletter">>), Class(<<"subscribe">>),
     Id(<<"nav">>), Id(<<"nav", "bar">>), Id(<<"nav", "igation">>),
     Id(<<"menu">>), Id(<<"sidebar">>), Id(<<"footer">>), Id(<<"header">>),
     Id(<<"comment", "s">>), Id(<<"ad">>), Id(<<"ad", "s">>),
     AttrIs("role", <<"navigation">>), AttrIs("role", <<"banner">>),
     AttrIs("role", <<"contentinfo">>), AttrIs("role", <<"complementary">>),
     AttrIs("aria-hidden", <<"true">>) >>

mainSelectors ==
  << Tag("main"), Tag("article"), AttrIs("role", <<"main">>),
     Id(<<"content">>), Id(<<"main">>), Id(<<"main", "-", "content">>),
     Class(<<"content">>), Class(<<"main">>), Class(<<"main", "-", "content">>),
     Class(<<"post">>), Class(<<"article">>), Class(<<"entry">>),
     Class(<<"entry", "-", "content">>), Class(<<"post", "-", "content">>),
     Class(<<"article", "-", "content">>) >>

\* the whitespace-separated tokens of an attribute value
RECURSIVE Tokens(_)
Tokens(s) ==
  IF TrimStart(s) = <<>> THEN {}
  ELSE Only({ {SubSeq(t, 1, n)} \cup Tokens(SubSeq(t, n + 1, Len(t))) :
              n \in {CHOOSE n \in 1..Len(TrimStart(s)) :
                       /\ \A k \in 1..n : ~IsWhitespace(TrimStart(s)[k])
                       /\ n = Len(TrimStart(s)) \/ IsWhitespace(TrimStart(s)[n + 1])},
              t \in {TrimStart(s)} })

\* a variant in which a class or id selector matches any value that
\* contains its name
Matches_substring(T, i, sel) ==
  CASE sel.kind = "tag" -> T.nodes[i].tag = sel.name
    [] sel.kind = "class" -> Includes(OrElse(Attr(T, i, "class"), <<>>), sel.value)
    [] sel.kind = "id" -> Includes(OrElse(Attr(T, i, "id"), <<>>), sel.value)
    [] sel.kind = "tagattr" ->
         T.nodes[i].tag = sel.tag /\ Attr(T, i, sel.name) = sel.value
    [] sel.kind = "taghas" ->
         T.nodes[i].tag = sel.tag /\ Attr(T, i, sel.name) # Undefined
    [] OTHER -> Attr(T, i, sel.name) = sel.value

\* whether an element matches a selector of the lists above
Matches(T, i, sel) ==
  CASE sel.kind = "tag" -> T.nodes[i].tag = sel.name
    [] sel.kind = "class" -> sel.value \in Tokens(OrElse(Attr(T, i, "class"), <<>>))
    [] sel.kind = "tagattr" ->
         T.nodes[i].tag = sel.tag /\ Attr(T, i, sel.name) = sel.value
    [] sel.kind = "taghas" ->
         T.nodes[i].tag = sel.tag /\ Attr(T, i, sel.name) # Undefined
    [] OTHER -> Attr(T, i, sel.name) = sel.value

\* $(selector)
Select(T, sel) == InOrder(T, T.live, LAMBDA i : Matches(T, i, sel))

\* whether $(selector).remove() takes the element away for one of the
\* selectors: a selector looks at the tag and the attributes of the element
\* alone, so the loop over the selectors removes what any of them matches
Removed(T, i, sels) ==
  \E k \in 1..Len(sels) : Matches(T, i, sels[k])

\* a variant that removes nothing
removeBoilerplate_nothing(T) == T

\* for (const selector of ELEMENTS_TO_REMOVE) $(selector).remove(): the
\* matched elements leave the tree with all that is below them
removeBoilerplate(T) ==
  [nodes |-> T.nodes,
   live |-> {i \in T.live :
               /\ ~Removed(T, i, ELEMENTS_TO_REMOVE)
               /\ \A a \in Ancestors(T.nodes, i) :
                    ~Removed(T, a, ELEMENTS_TO_REMOVE)}]

\* elements the loader puts in the head of the document
HeadTags == {"title", "meta", "link"}

\* the children of an element; 0 is the body
Children(T, i) ==
  InOrder(T, T.live,
          LAMBDA j : /\ T.nodes[j].parent = i
                     /\ i = 0 => T.nodes[j].tag \notin HeadTags)

\* a variant that takes the first element that any selector matches
findMainContent_documentOrder(T) ==
  IF \A k \in 1..Len(mainSelectors) : Select(T, mainSelectors[k]) = <<>>
  THEN 0
  ELSE CHOOSE i \in T.live :
         /\ \E k \in 1..Len(mainSelectors) : Matches(T, i, mainSelectors[k])
         /\ \A j \in T.live :
              (\E k \in 1..Len(mainSelectors) : Matches(T, j, mainSelectors[k]))
                => i <= j

\* the first element of the first selector that matches, else the body
findMainContent(T) ==
  IF \A k \in 1..Len(mainSelectors) : Select(T, mainSelectors[k]) = <<>>
  THEN 0
  ELSE Select(T, mainSelectors[
         CHOOSE k \in 1..Len(mainSelectors) :
           /\ Select(T, mainSelectors[k]) # <<>>
           /\ \A j \in 1..(k - 1) : Select(T, mainSelectors[j]) = <<>>])[1]

HeadingTags == {"h1", "h2", "h3", "h4", "h5", "h6"}

\* parseInt(tagName.charAt(1), 10)
HeadingLevel(tag) ==
  CASE tag = "h1" -> 1 [] tag = "h2" -> 2 [] tag = "h3" -> 3
    [] tag = "h4" -> 4 [] tag = "h5" -> 5 [] tag = "h6" -> 6

extractHeadings(T) ==
  Only({ [k \in 1..Len(hs) |->
            [level |-> HeadingLevel(T.nodes[hs[k]].tag),
             text |-> Trim(TextOf(T, hs[k]))]] :
         hs \in {InOrder(T, T.live,
                   LAMBDA i : /\ T.nodes[i].tag \in HeadingTags
                              /\ Trim(TextOf(T, i)) # <<>>)} })

(***************************************************************************)
(* The Turndown service as createTurndownService configures it: atx        *)
(* headings, fenced code blocks, the rule for pre. Every element of the    *)
(* documents below is a block element.                                     *)
(***************************************************************************)
RECURSIVE trimLeadingNewlines(_)
trimLeadingNewlines(s) ==
  IF s # <<>> /\ Head(s) = "\n" THEN trimLeadingNewlines(Tail(s)) ELSE s

RECURSIVE trimTrailingNewlines(_)
trimTrailingNewlines(s) ==
  IF s # <<>> /\ s[Len(s)] = "\n"
  THEN trimTrailingNewlines(SubSeq(s, 1, Len(s) - 1)) ELSE s

Min(a, b) == IF a <= b THEN a ELSE b

\* the pieces are joined by as many newlines as the longer of their
\* trailing and leading runs, and by two at most
joinTrimmed(output, s1, replacement, s2) ==
  s1 \o [k \in 1..Min(2, Max(Len(output) - Len(s1), Len(replacement) - Len(s2))) |-> "\n"]
     \o s2

join(output, replacement) ==
  Only({ joinTrimmed(output, x[1], replacement, x[2]) :
         x \in {<<trimTrailingNewlines(output), trimLeadingNewlines(replacement)>>} })

\* the rule for pre: a fenced block of the trimmed text of the element
preReplacement(text) ==
  <<"\n", "<fence>", "\n">> \o Trim(text) \o <<"\n", "<fence>", "\n">>

headingReplacement(level, content) ==
  <<"\n", "\n">> \o [k \in 1..level |-> "#"] \o <<" ">> \o content \o <<"\n", "\n">>

blockReplacement(content) == <<"\n", "\n">> \o content \o <<"\n", "\n">>

RECURSIVE process(_, _)
RECURSIVE joinChildren(_, _, _)

replacementForNode(T, i) ==
  IF Trim(TextOf(T, i)) = <<>> THEN <<"\n", "\n">>
  ELSE IF T.nodes[i].tag = "pre" THEN preReplacement(TextOf(T, i))
  ELSE IF T.nodes[i].tag \in HeadingTags
  THEN headingReplacement(HeadingLevel(T.nodes[i].tag), process(T, i))
  ELSE blockReplacement(process(T, i))

joinChildren(T, kids, output) ==
  IF kids = <<>> THEN output
  ELSE Only({ joinChildren(T, Tail(kids), o) :
              o \in {join(output, replacementForNode(T, Head(kids)))} })

\* the text of the element, its whitespace collapsed, then its children
process(T, i) ==
  joinChildren(T, Children(T, i),
    IF i = 0 THEN <<>> ELSE Trim(CollapseWhitespace(T.nodes[i].text)))

\* turndown.turndown(mainContent.html())
turndown(T, main) == TrimEnd(trimLeadingNewlines(process(T, main)))

\* a variant without the g flag: the first run alone becomes two newlines
CollapseNewlines_firstOnly(s) ==
  IF ~Includes(s, <<"\n", "\n", "\n">>) THEN s
  ELSE Only({ SubSeq(s, 1, i + 1) \o trimLeadingNewlines(SubSeq(s, i + 2, Len(s))) :
              i \in {CHOOSE i \in 1..Len(s) :
                       /\ SubSeq(s, i, i + 2) = <<"\n", "\n", "\n">>
                       /\ \A j \in 1..(i - 1) :
                            SubSeq(s, j, j + 2) # <<"\n", "\n", "\n">>} })

\* markdown.replace(/\n{3,}/g, "\n\n"): every run of three or more
\* newlines becomes two
RECURSIVE CollapseNewlines(_)
CollapseNewlines(s) ==
  IF s = <<>> THEN <<>>
  ELSE IF Len(s) >= 3 /\ s[1] = "\n" /\ s[2] = "\n" /\ s[3] = "\n"
  THEN <<"\n", "\n">> \o CollapseNewlines(trimLeadingNewlines(s))
  ELSE IF Head(s) = "\n"
  THEN Only({ SubSeq(s, 1, n) \o CollapseNewlines(SubSeq(s, n + 1, Len(s))) :
              n \in {Len(s) - Len(trimLeadingNewlines(s))} })
  ELSE <<Head(s)>> \o CollapseNewlines(Tail(s))

cleanUp(markdown) == Trim(CollapseNewlines(markdown))

\* text.trim().split(/\s+/).filter((word) => word.length > 0).length
countWords(text) == Cardinality({k \in 1..Len(text) :
                      /\ ~IsWhitespace(text[k])
                      /\ k = 1 \/ IsWhitespace(text[k - 1])})

ShortContentWords == 50

markdownResponseFrom(T, src, markdown, headings) ==
  [response |-> createSuccessResponse(
                  [markdown |-> markdown, headings |-> headings,
                   word_count |-> countWords(markdown)], src,
                  IF countWords(markdown) < ShortContentWords
                  THEN <<"Extracted content is very short. The page may be JavaScript-rendered or have unusual structure.">>
                  ELSE <<>>),
   origin |-> <<>>,
   tree |-> T]

\* headings are read from the tree as loaded, the markdown from the tree
\* after the removal
markdownFromFiltered(T, src, headings) ==
  Only({ markdownResponseFrom(T, src, markdown, headings) :
         markdown \in {cleanUp(turndown(T, findMainContent(T)))} })

\* a variant that reads the headings after the removal
markdownResponse_headingsAfterRemoval(T, src) ==
  Only({ markdownFromFiltered(T1, src, extractHeadings(T1)) :
         T1 \in {removeBoilerplate(T)} })

markdownResponse(T, src) ==
  Only({ Only({ markdownFromFiltered(T1, src, headings) :
                T1 \in {removeBoilerplate(T)} }) :
         headings \in {extractHeadings(T)} })

(***************************************************************************)
(* extract_metadata.                                                       *)
(***************************************************************************)
JNull == [t |-> "null", fields |-> <<>>, s |-> <<>>]
JString(s) == [t |-> "string", fields |-> <<>>, s |-> s]
JObject(fields) == [t |-> "object", fields |-> fields, s |-> <<>>]
JUndefined == [t |-> "undefined", fields |-> <<>>, s |-> <<>>]

\* the contents of the JSON-LD blocks of the documents
JsonNull == <<"null">>
JsonAuthorString == <<"{", "author", ":", "Ann", "}">>
JsonAuthorObject == <<"{", "author", ":", "{", "name", ":", "Bob", "}", "}">>
JsonCreator == <<"{", "creator", ":", "Cy", ",", "datePublished", ":", "D1", "}">>
JsonTruncated == <<"{", "author", ":">>
JsonBlank == <<" ">>

\* JSON.parse(content): the value, or a SyntaxError
JSONparse(content) ==
  CASE Trim(content) = JsonNull -> [ok |-> TRUE, value |-> JNull]
    [] Trim(content) = JsonAuthorString ->
         [ok |-> TRUE, value |-> JObject([author |-> JString(<<"Ann">>)])]
    [] Trim(content) = JsonAuthorObject ->
         [ok |-> TRUE,
          value |-> JObject([author |-> JObject([name |-> JString(<<"Bob">>)])])]
    [] Trim(content) = JsonCreator ->
         [ok |-> TRUE,
          value |-> JObject([creator |-> JString(<<"Cy">>),
                             datePublished |-> JString(<<"D1">>)])]
    [] OTHER -> [ok |-> FALSE, value |-> JUndefined]

\* obj[key]
Field(obj, key) ==
  IF obj.t = "object" /\ key \in DOMAIN obj.fields THEN obj.fields[key]
  ELSE JUndefined

\* $(selector).attr(name): the attribute of the first element matched
AttrOfFirst(T, sel, a) ==
  Only({ IF m = <<>> THEN Undefined ELSE Attr(T, m[1], a) : m \in {Select(T, sel)} })

\* $(selector).first().text().trim()
TextOfFirst(T, sel) ==
  Only({ IF m = <<>> THEN <<>> ELSE Trim(TextOf(T, m[1])) : m \in {Select(T, sel)} })

\* the meta elements with an og: property and a content, in document order
OpenGraphElements(T) ==
  InOrder(T, T.live,
          LAMBDA i : /\ T.nodes[i].tag = "meta"
                     /\ Attr(T, i, "property") # Undefined
                     /\ Attr(T, i, "property") # <<>>
                     /\ Head(Attr(T, i, "property")) = "og:"
                     /\ ~Falsy(Attr(T, i, "content")))

\* property.replace("og:", "")
OpenGraphKey(property) == Tail(property)

\* a variant in which the first element of a key stays
openGraphFrom_firstWins(T, els) ==
  [key \in {OpenGraphKey(Attr(T, els[k], "property")) : k \in 1..Len(els)} |->
     Attr(T, els[CHOOSE k \in 1..Len(els) :
                   /\ OpenGraphKey(Attr(T, els[k], "property")) = key
                   /\ \A j \in 1..(k - 1) :
                        OpenGraphKey(Attr(T, els[j], "property")) # key],
          "content")]

\* og[key] = content for each element in turn: the last one stays
openGraphFrom(T, els) ==
  [key \in {OpenGraphKey(Attr(T, els[k], "property")) : k \in 1..Len(els)} |->
     Attr(T, els[CHOOSE k \in 1..Len(els) :
                   /\ OpenGraphKey(Attr(T, els[k], "property")) = key
                   /\ \A j \in (k + 1)..Len(els) :
                        OpenGraphKey(Attr(T, els[j], "property")) # key],
          "content")]

extractOpenGraph(T) ==
  Only({ openGraphFrom(T, els) : els \in {OpenGraphElements(T)} })

\* every block in document order, parsed or not
jsonLdFrom_unfiltered(T, blocks) ==
  [k \in 1..Len(blocks) |-> JSONparse(T.nodes[blocks[k]].text).value]

\* the blocks in document order; a block without content is passed over,
\* a block that does not parse is dropped
jsonLdFrom(T, blocks) ==
  Only({ [k \in 1..Len(kept) |-> JSONparse(T.nodes[kept[k]].text).value] :
         kept \in {SelectSeq(blocks,
                     LAMBDA b : /\ T.nodes[b].text # <<>>
                                /\ JSONparse(T.nodes[b].text).ok)} })

extractJsonLd(T) ==
  jsonLdFrom(T, Select(T, TagAttr("script", "type", <<"application/ld+json">>)))

\* name || property || itemprop
MetaName(T, i) ==
  OrElse(Attr(T, i, "name"),
         OrElse(Attr(T, i, "property"), OrElse(Attr(T, i, "itemprop"), Undefined)))

MetaElements(T) ==
  InOrder(T, T.live,
          LAMBDA i : /\ T.nodes[i].tag = "meta"
                     /\ ~Falsy(MetaName(T, i))
                     /\ ~Falsy(Attr(T, i, "content")))

\* tags[name] = content for each element in turn: the last one stays
metaTagsFrom(T, els) ==
  [name \in {MetaName(T, els[k]) : k \in 1..Len(els)} |->
     Attr(T, els[CHOOSE k \in 1..Len(els) :
                   /\ MetaName(T, els[k]) = name
                   /\ \A j \in (k + 1)..Len(els) : MetaName(T, els[j]) # name],
          "content")]

extractMetaTags(T) ==
  Only({ metaTagsFrom(T, els) : els \in {MetaElements(T)} })

\* metaTags[name]
Lookup(tags, name) == IF name \in DOMAIN tags THEN tags[name] ELSE Undefined

\* what one JSON-LD value gives as the author: its author string, the name
\* of its author object, or its creator string
authorOf(data) ==
  IF data.t # "object" THEN Undefined
  ELSE IF Field(data, "author").t = "string" THEN Field(data, "author").s
  ELSE IF Field(data, "author").t = "object"
          /\ Field(Field(data, "author"), "name").t = "string"
  THEN Field(Field(data, "author"), "name").s
  ELSE IF Field(data, "creator").t = "string" THEN Field(data, "creator").s
  ELSE Undefined

\* the first value of the list for which f gives something
FirstDefined(values, f(_)) ==
  IF \A k \in 1..Len(values) : f(values[k]) = Undefined THEN Undefined
  ELSE f(values[CHOOSE k \in 1..Len(values) :
                  /\ f(values[k]) # Undefined
                  /\ \A j \in 1..(k - 1) : f(values[j]) = Undefined])

\* a variant that looks for the author field of every block before any
\* creator
authorFieldOf(data) ==
  IF data.t # "object" THEN Undefined
  ELSE IF Field(data, "author").t = "string" THEN Field(data, "author").s
  ELSE IF Field(data, "author").t = "object"
          /\ Field(Field(data, "author"), "name").t = "string"
  THEN Field(Field(data, "author"), "name").s
  ELSE Undefined

extractAuthor_authorsFirst(T, metaTags, jsonLd) ==
  IF ~Falsy(Lookup(metaTags, <<"author">>)) THEN Lookup(metaTags, <<"author">>)
  ELSE IF ~Falsy(Lookup(metaTags, <<"article:", "author">>))
  THEN Lookup(metaTags, <<"article:", "author">>)
  ELSE IF FirstDefined(jsonLd, authorFieldOf) # Undefined
  THEN FirstDefined(jsonLd, authorFieldOf)
  ELSE IF FirstDefined(jsonLd, authorOf) # Undefined
  THEN FirstDefined(jsonLd, authorOf)
  ELSE OrElse(TextOfFirst(T, TagAttr("a", "rel", <<"author">>)), Undefined)

extractAuthor(T, metaTags, jsonLd) ==
  IF ~Falsy(Lookup(metaTags, <<"author">>)) THEN Lookup(metaTags, <<"author">>)
  ELSE IF ~Falsy(Lookup(metaTags, <<"article:", "author">>))
  THEN Lookup(metaTags, <<"article:", "author">>)
  ELSE IF FirstDefined(jsonLd, authorOf) # Undefined
  THEN FirstDefined(jsonLd, authorOf)
  ELSE OrElse(TextOfFirst(T, TagAttr("a", "rel", <<"author">>)), Undefined)

dateMetaTags ==
  << <<"article:", "published_time">>, <<"datePublished">>, <<"date">>,
     <<"pubdate">>, <<"DC.date.issued">> >>

dateOf(data) ==
  IF data.t # "object" THEN Undefined
  ELSE IF Field(data, "datePublished").t = "string"
  THEN Field(data, "datePublished").s
  ELSE IF Field(data, "dateCreated").t = "string"
  THEN Field(data, "dateCreated").s
  ELSE Undefined

extractPublishDate(T, metaTags, jsonLd) ==
  IF \E k \in 1..Len(dateMetaTags) : ~Falsy(Lookup(metaTags, dateMetaTags[k]))
  THEN Lookup(metaTags, dateMetaTags[
         CHOOSE k \in 1..Len(dateMetaTags) :
           /\ ~Falsy(Lookup(metaTags, dateMetaTags[k]))
           /\ \A j \in 1..(k - 1) : Falsy(Lookup(metaTags, dateMetaTags[j]))])
  ELSE IF FirstDefined(jsonLd, dateOf) # Undefined
  THEN FirstDefined(jsonLd, dateOf)
  ELSE OrElse(AttrOfFirst(T, TagHas("time", "datetime"), "datetime"), Undefined)

\* $("title").first().text().trim() || undefined, then the og:title
extractTitle(T) ==
  OrElse(TextOfFirst(T, Tag("title")),
         OrElse(AttrOfFirst(T, TagAttr("meta", "property", <<"og:", "title">>),
                            "content"),
                Undefined))

extractDescription(T) ==
  OrElse(AttrOfFirst(T, TagAttr("meta", "name", <<"description">>), "content"),
         OrElse(AttrOfFirst(T, TagAttr("meta", "property", <<"og:", "description">>),
                            "content"),
                Undefined))

extractCanonicalUrl(T, src) ==
  OrElse(AttrOfFirst(T, TagAttr("link", "rel", <<"canonical">>), "href"),
         OrElse(AttrOfFirst(T, TagAttr("meta", "property", <<"og:", "url">>),
                            "content"),
                OrElse(src, Undefined)))

\* a missing description or Open Graph mapping is not warned of
metadataWarnings_titleOnly(title, description, openGraph) ==
  IF Falsy(title) THEN <<"No title found in the document">> ELSE <<>>

metadataWarnings(title, description, openGraph) ==
  (IF Falsy(title) THEN <<"No title found in the document">> ELSE <<>>)
  \o (IF Falsy(description) THEN <<"No description found in the document">>
      ELSE <<>>)
  \o (IF DOMAIN openGraph = {} THEN <<"No Open Graph metadata found">> ELSE <<>>)

metadataResponseFrom(T, src, title, description, openGraph, jsonLd, metaTags) ==
  [response |-> createSuccessResponse(
                  [title |-> title,
                   description |-> description,
                   canonical_url |-> extractCanonicalUrl(T, src),
                   author |-> extractAuthor(T, metaTags, jsonLd),
                   publish_date |-> extractPublishDate(T, metaTags, jsonLd),
                   open_graph |-> openGraph,
                   json_ld |-> jsonLd,
                   meta_tags |-> metaTags], src,
                  metadataWarnings(title, description, openGraph)),
   origin |-> <<>>,
   tree |-> T]

metadataResponse(T, src) ==
  Only({ metadataResponseFrom(T, src, x[1], x[2], x[3], x[4], x[5]) :
         x \in {<<extractTitle(T), extractDescription(T), extractOpenGraph(T),
                  extractJsonLd(T), extractMetaTags(T)>>} })

(***************************************************************************)
(* Input documents for the metadata engine: every sequence of at most      *)
(* MaxMetaNodes elements among title, meta and JSON-LD script.             *)
(***************************************************************************)
Meta(attr, name, content) ==
  Node("meta", 0, (attr :> name) @@ [content |-> content], <<>>)

JsonLd(content) ==
  Node("script", 0, [type |-> <<"application/ld+json">>], content)

MetaElementsOfDocs ==
  {Node("title", 0, NoAttrs, tx) : tx \in {<<" ", "Page", "\n">>, <<" ">>}}
  \cup {Meta("property", <<"og:", "title">>, c) : c \in {<<"A">>, <<"B">>, <<>>}}
  \cup {Meta("name", <<"description">>, <<"D">>)}
  \cup {JsonLd(c) : c \in {JsonTruncated, JsonNull, JsonAuthorString,
                           JsonAuthorObject}}

RECURSIVE MetaDocsUpTo(_)
MetaDocsUpTo(n) ==
  IF n = 0 THEN {<<>>}
  ELSE Only({ S \cup {Append(d, e) : d \in S, e \in MetaElementsOfDocs} :
              S \in {MetaDocsUpTo(n - 1)} })

MetaScenarios ==
  { \* the JSON-LD of an article between a block without content, a blank
    \* block and a block of another type
    << Node("title", 0, NoAttrs, <<"Page">>),
       JsonLd(<<>>), JsonLd(JsonCreator), JsonLd(JsonBlank),
       Node("script", 0, [type |-> <<"text/javascript">>], JsonAuthorString),
       JsonLd(JsonAuthorObject),
       Node("a", 0, [rel |-> <<"author">>], <<"Dee">>),
       Node("time", 0, [datetime |-> <<"D2">>], <<>>) >>,
    \* Open Graph and article meta elements
    << Meta("property", <<"og:", "title">>, <<"A">>),
       Meta("property", <<"og:", "description">>, <<"OD">>),
       Meta("property", <<"og:", "url">>, <<"http://", "o">>),
       Meta("property", <<"article:", "author">>, <<"Eve">>),
       Meta("property", <<"article:", "published_time">>, <<"D3">>),
       Meta("itemprop", <<"datePublished">>, <<"D4">>),
       Node("link", 0, [rel |-> <<"canonical">>, href |-> <<"http://", "c">>], <<>>),
       Meta("name", <<"author">>, <<"Fay">>) >> }

(***************************************************************************)
(* Input documents for the table engine: every tree of at most             *)
(* MaxTableNodes table, thead, tr, th and td elements that the loader can  *)
(* build (rows stand under a table or its thead, cells under a row, a      *)
(* nested table under a cell).                                             *)
(***************************************************************************)
TableChildren(d, parent) ==
  LET ptag == TagOf(d, parent)
  IN  CASE ptag = "#document" ->
             {Node("table", parent, a, <<>>) :
                a \in {NoAttrs, [role |-> <<"presentation">>]}}
        [] ptag = "table" ->
             {Node(tg, parent, NoAttrs, <<>>) : tg \in {"thead", "tr"}}
        [] ptag = "thead" -> {Node("tr", parent, NoAttrs, <<>>)}
        [] ptag = "tr" ->
             {Node("th", parent, NoAttrs, tx) : tx \in {<<>>, <<"x">>}}
               \cup {Node("td", parent, NoAttrs, <<"x">>)}
        [] OTHER ->
             {Node("table", parent, a, <<>>) :
                a \in {NoAttrs, [role |-> <<"presentation">>]}}

GrowTable(d) ==
  UNION {{Append(d, n) : n \in TableChildren(d, parent)} :
           parent \in RightmostPath(d)}

RECURSIVE TableDocsUpTo(_)
TableDocsUpTo(n) ==
  IF n = 0 THEN {<<>>}
  ELSE Only({ S \cup UNION {GrowTable(d) : d \in S} :
              S \in {TableDocsUpTo(n - 1)} })

\* the documents of the tests and of the scenarios of the specification
TableScenarios ==
  { \* no table at all
    << Node("p", 0, NoAttrs, <<"Y">>) >>,
    \* <table><tr><th>Name</th></tr><tr><td>Ann</td></tr></table>
    << Node("table", 0, NoAttrs, <<>>),
       Node("tr", 1, NoAttrs, <<>>), Node("th", 2, NoAttrs, <<"Name">>),
       Node("tr", 1, NoAttrs, <<>>), Node("td", 4, NoAttrs, <<"Ann">>) >>,
    \* a layout table followed by a data table
    << Node("table", 0, [role |-> <<"presentation">>], <<>>),
       Node("tr", 1, NoAttrs, <<>>), Node("td", 2, NoAttrs, <<"Layout">>),
       Node("table", 0, NoAttrs, <<>>),
       Node("tr", 4, NoAttrs, <<>>), Node("th", 5, NoAttrs, <<"Data">>),
       Node("tr", 4, NoAttrs, <<>>), Node("td", 7, NoAttrs, <<"Real">>) >>,
    \* a header row of two cells over rows of one and of three cells
    << Node("table", 0, NoAttrs, <<>>),
       Node("caption", 1, NoAttrs, <<" ", "Cap", "\n">>),
       Node("thead", 1, NoAttrs, <<>>),
       Node("tr", 3, NoAttrs, <<>>),
       Node("th", 4, NoAttrs, <<"A">>), Node("th", 4, NoAttrs, <<"B">>),
       Node("tr", 1, NoAttrs, <<>>), Node("td", 7, NoAttrs, <<" ", "a", "\n", " ", "b">>),
       Node("tr", 1, NoAttrs, <<>>),
       Node("td", 9, NoAttrs, <<"c">>), Node("td", 9, NoAttrs, <<"d">>),
       Node("td", 9, NoAttrs, <<"e">>) >>,
    \* a thead of two rows over a row
    << Node("table", 0, NoAttrs, <<>>),
       Node("thead", 1, NoAttrs, <<>>),
       Node("tr", 2, NoAttrs, <<>>), Node("th", 3, NoAttrs, <<"A">>),
       Node("tr", 2, NoAttrs, <<>>), Node("th", 5, NoAttrs, <<"B">>),
       Node("tr", 1, NoAttrs, <<>>), Node("td", 7, NoAttrs, <<"1">>) >>,
    \* a table in a table in a table
    << Node("table", 0, NoAttrs, <<>>),
       Node("tr", 1, NoAttrs, <<>>), Node("td", 2, NoAttrs, <<"o">>),
       Node("table", 3, NoAttrs, <<>>),
       Node("tr", 4, NoAttrs, <<>>), Node("td", 5, NoAttrs, <<"m">>),
       Node("table", 6, NoAttrs, <<>>),
       Node("tr", 7, NoAttrs, <<>>), Node("td", 8, NoAttrs, <<"i">>) >> }

(***************************************************************************)
(* fetch.ts                                                                *)
(***************************************************************************)
DefaultTimeoutMs == 30000

\* str.startsWith("http://") || str.startsWith("https://")
isUrl(s) == s # <<>> /\ Head(s) \in {"http://", "https://"}

\* new URL(url) parses and the protocol is http: or https:
isValidUrl(s) ==
  /\ isUrl(s)
  /\ Len(s) >= 2
  /\ \A k \in 2..Len(s) : ~IsWhitespace(s[k])

NoTree == [nodes |-> <<>>, live |-> {}]
NoAwaited == [html |-> JSUndefined, source |-> Undefined, error |-> NoResult]

\* what is thrown: an Error with its name and message, or another value
Thrown(isError, name, message) ==
  [isError |-> isError, name |-> name, message |-> message]

NoError == Thrown(FALSE, "", <<>>)

\* controller.abort() makes fetch reject with an AbortError
AbortError == Thrown(TRUE, "AbortError", <<"This operation was aborted">>)

\* what the network did for the request of a call
Network(kind, status, error) == [kind |-> kind, status |-> status, error |-> error]

NoResponse == Network("none", 0, NoError)

\* response.ok
StatusOk(status) == status >= 200 /\ status <= 299

\* response.statusText
StatusText(status) ==
  CASE status = 200 -> "OK"
    [] status = 404 -> "Not Found"
    [] status = 500 -> "Internal Server Error"
    [] OTHER -> ""

\* the response of fetchUrl to a status that is not ok
statusResponse(status, url) ==
  createErrorResponse("UPSTREAM_ERROR", <<"HTTP ", status, ": ", StatusText(status)>>,
    [status_code |-> status, url |-> url])

\* the catch block of fetchUrl
fetchUrlCatch(error, url) ==
  IF error.isError
  THEN IF error.name = "AbortError"
       THEN createErrorResponse("TIMEOUT",
              <<"Request timed out after ", DefaultTimeoutMs, "ms">>,
              [timeout_ms |-> DefaultTimeoutMs, url |-> url])
       ELSE IF \/ Includes(error.message, <<"ENOTFOUND">>)
               \/ Includes(error.message, <<"ECONNREFUSED">>)
               \/ Includes(error.message, <<"fetch failed">>)
       THEN createErrorResponse("UPSTREAM_ERROR",
              <<"Failed to connect to ", url, ": ", error.message>>,
              [url |-> url])
       ELSE createErrorResponse("INTERNAL_ERROR", error.message,
              [url |-> url, error_type |-> error.name])
  ELSE createErrorResponse("INTERNAL_ERROR", <<"An unknown error occurred">>,
         [url |-> url])

\* the error of the fetch is dropped
fetchFailed_swallowed(response) ==
  [html |-> Str(<<>>, <<>>), source |-> Undefined, error |-> NoResult]

\* what fetchHtmlOrUseProvided makes of the response of fetchUrl
fetchFailed(response) ==
  [html |-> Str(<<>>, <<>>), source |-> Undefined, error |-> response]

fetchSucceeded(body, url) ==
  [html |-> body, source |-> url, error |-> NoResult]

(***************************************************************************)
(* The operations.                                                         *)
(***************************************************************************)
\* the tree of the caller's last call is used again for the same markup
cheerio_load_cached(p, h) ==
  IF dom[p].nodes = h.doc /\ dom[p] # NoTree THEN dom[p] ELSE Load(h.doc)

\* the tree another caller loaded from the same markup is used
cheerio_load_shared(p, h) ==
  IF \E q \in Procs \ {p} : dom[q] # NoTree /\ dom[q].nodes = h.doc
  THEN dom[CHOOSE q \in Procs \ {p} : dom[q] # NoTree /\ dom[q].nodes = h.doc]
  ELSE Load(h.doc)

\* cheerio.load(html): a tree of the call's own
cheerio_load(p, h) == Load(h.doc)

\* only what is falsy is refused
InvalidInput_falsyOnly(v) == Not(v)

\* !html_or_url || typeof html_or_url !== "string"
InvalidInput(v) == Not(v) \/ TypeOf(v) # "string"

Respond(p, T, src) ==
  CASE op[p] = "tables" -> tablesResponse(T, src)
    [] op[p] = "markdown" -> markdownResponse(T, src)
    [] op[p] = "metadata" -> metadataResponse(T, src)

\* The call up to its first await: the argument is checked, and a URL is
\* handed to fetchUrl, which checks it and sends the request.
Call(p, ops, inputs) ==
  /\ pc[p] = "idle"
  /\ calls[p] < MaxCalls
  /\ \E o \in ops, v \in inputs :
       /\ op' = [op EXCEPT ![p] = o]
       /\ input' = [input EXCEPT ![p] = v]
       /\ calls' = [calls EXCEPT ![p] = @ + 1]
       /\ loads' = [loads EXCEPT ![p] = 0]
       /\ origin' = [origin EXCEPT ![p] = <<>>]
       /\ network' = [network EXCEPT ![p] = NoResponse]
       /\ IF InvalidInput(v)
          THEN /\ result' = [result EXCEPT ![p] =
                    createErrorResponse("INVALID_INPUT",
                      <<"html_or_url is required and must be a string">>,
                      NoDetails)]
               /\ pc' = [pc EXCEPT ![p] = "done"]
               /\ awaited' = [awaited EXCEPT ![p] = NoAwaited]
               /\ timer' = [timer EXCEPT ![p] = "none"]
               /\ fetches' = [fetches EXCEPT ![p] = 0]
          ELSE /\ result' = [result EXCEPT ![p] = NoResult]
               /\ IF ~isUrl(v.s)
                  THEN /\ awaited' = [awaited EXCEPT ![p] =
                            [html |-> v, source |-> Undefined, error |-> NoResult]]
                       /\ pc' = [pc EXCEPT ![p] = "resume"]
                       /\ timer' = [timer EXCEPT ![p] = "none"]
                       /\ fetches' = [fetches EXCEPT ![p] = 0]
                  ELSE IF ~isValidUrl(v.s)
                  THEN /\ awaited' = [awaited EXCEPT ![p] =
                            fetchFailed(createErrorResponse("INVALID_INPUT",
                              <<"Invalid URL format. Must be a valid HTTP or HTTPS URL.">>,
                              [url |-> v.s]))]
                       /\ pc' = [pc EXCEPT ![p] = "resume"]
                       /\ timer' = [timer EXCEPT ![p] = "none"]
                       /\ fetches' = [fetches EXCEPT ![p] = 0]
                  ELSE /\ awaited' = [awaited EXCEPT ![p] = NoAwaited]
                       /\ pc' = [pc EXCEPT ![p] = "fetching"]
                       /\ timer' = [timer EXCEPT ![p] = "armed"]
                       /\ fetches' = [fetches EXCEPT ![p] = 1]
  /\ UNCHANGED <<dom, prev, now>>

\* The response headers arrive: the timer is cleared; a status outside
\* 200..299 ends the fetch, any other leaves the body to be read.
FetchResponds(p, statuses) ==
  /\ pc[p] = "fetching"
  /\ timer[p] = "armed"
  /\ \E status \in statuses :
       /\ network' = [network EXCEPT ![p] = Network("status", status, NoError)]
       /\ IF StatusOk(status)
          THEN /\ pc' = [pc EXCEPT ![p] = "reading"]
               /\ UNCHANGED awaited
          ELSE /\ pc' = [pc EXCEPT ![p] = "resume"]
               /\ awaited' = [awaited EXCEPT ![p] =
                    fetchFailed(statusResponse(status, input[p].s))]
  /\ timer' = [timer EXCEPT ![p] = "cleared"]
  /\ UNCHANGED <<op, input, result, origin, dom, prev, calls, fetches, loads, now>>

\* The timer fires before the headers arrive: the request is aborted and
\* fetch rejects with an AbortError.
FetchTimesOut(p) ==
  /\ pc[p] = "fetching"
  /\ timer[p] = "armed"
  /\ timer' = [timer EXCEPT ![p] = "fired"]
  /\ pc' = [pc EXCEPT ![p] = "resume"]
  /\ network' = [network EXCEPT ![p] = Network("timeout", 0, AbortError)]
  /\ awaited' = [awaited EXCEPT ![p] =
       fetchFailed(fetchUrlCatch(AbortError, input[p].s))]
  /\ UNCHANGED <<op, input, result, origin, dom, prev, calls, fetches, loads, now>>

\* fetch rejects before the headers arrive, or reading the body throws.
\* The timer of a rejected fetch stays armed: only the path through the
\* headers clears it.
FetchThrows(p, errors) ==
  /\ pc[p] \in {"fetching", "reading"}
  /\ \E error \in errors :
       /\ awaited' = [awaited EXCEPT ![p] =
            fetchFailed(fetchUrlCatch(error, input[p].s))]
       /\ network' = [network EXCEPT ![p] =
            Network(IF pc[p] = "fetching" THEN "rejected" ELSE "body lost",
                    @.status, error)]
  /\ pc' = [pc EXCEPT ![p] = "resume"]
  /\ UNCHANGED <<op, input, timer, result, origin, dom, prev, calls, fetches,
                 loads, now>>

\* response.text() resolves with the body.
BodyArrives(p, bodies) ==
  /\ pc[p] = "reading"
  /\ \E body \in bodies :
       awaited' = [awaited EXCEPT ![p] = fetchSucceeded(body, input[p].s)]
  /\ network' = [network EXCEPT ![p] = Network("body", @.status, NoError)]
  /\ pc' = [pc EXCEPT ![p] = "resume"]
  /\ UNCHANGED <<op, input, timer, result, origin, dom, prev, calls, fetches,
                 loads, now>>

\* The call after its await: an error of the fetch is returned as it is,
\* blank markup is refused, anything else is loaded and extracted from.
Resume(p) ==
  /\ pc[p] = "resume"
  /\ op[p] # "fetch_url"
  /\ pc' = [pc EXCEPT ![p] = "done"]
  /\ IF awaited[p].error # NoResult
     THEN /\ result' = [result EXCEPT ![p] = awaited[p].error]
          /\ UNCHANGED <<origin, dom, loads>>
     ELSE IF Trim(awaited[p].html.s) = <<>>
     THEN /\ result' = [result EXCEPT ![p] =
               createErrorResponse("INVALID_INPUT",
                                   <<"Empty HTML content provided">>, NoDetails)]
          /\ UNCHANGED <<origin, dom, loads>>
     ELSE \E T \in {cheerio_load(p, awaited[p].html)} :
            \E r \in {Respond(p, T, awaited[p].source)} :
              /\ result' = [result EXCEPT ![p] = r.response]
              /\ origin' = [origin EXCEPT ![p] = r.origin]
              /\ dom' = [dom EXCEPT ![p] = r.tree]
              /\ loads' = [loads EXCEPT ![p] = @ + 1]
  /\ UNCHANGED <<op, input, timer, awaited, prev, calls, fetches, network, now>>

\* fetch_url up to its await: the url is checked and the request is sent.
CallFetchUrl(p, inputs) ==
  /\ pc[p] = "idle"
  /\ calls[p] < MaxCalls
  /\ \E v \in inputs :
       /\ op' = [op EXCEPT ![p] = "fetch_url"]
       /\ input' = [input EXCEPT ![p] = v]
       /\ IF Not(v) \/ TypeOf(v) # "string"
          THEN /\ result' = [result EXCEPT ![p] =
                    createErrorResponse("INVALID_INPUT", <<"URL is required">>,
                                        NoDetails)]
               /\ pc' = [pc EXCEPT ![p] = "done"]
               /\ timer' = [timer EXCEPT ![p] = "none"]
               /\ fetches' = [fetches EXCEPT ![p] = 0]
          ELSE IF ~isValidUrl(v.s)
          THEN /\ result' = [result EXCEPT ![p] =
                    createErrorResponse("INVALID_INPUT",
                      <<"Invalid URL format. Must be a valid HTTP or HTTPS URL.">>,
                      [url |-> v.s])]
               /\ pc' = [pc EXCEPT ![p] = "done"]
               /\ timer' = [timer EXCEPT ![p] = "none"]
               /\ fetches' = [fetches EXCEPT ![p] = 0]
          ELSE /\ result' = [result EXCEPT ![p] = NoResult]
               /\ pc' = [pc EXCEPT ![p] = "fetching"]
               /\ timer' = [timer EXCEPT ![p] = "armed"]
               /\ fetches' = [fetches EXCEPT ![p] = 1]
  /\ calls' = [calls EXCEPT ![p] = @ + 1]
  /\ loads' = [loads EXCEPT ![p] = 0]
  /\ origin' = [origin EXCEPT ![p] = <<>>]
  /\ network' = [network EXCEPT ![p] = NoResponse]
  /\ awaited' = [awaited EXCEPT ![p] = NoAwaited]
  /\ UNCHANGED <<dom, prev, now>>

\* fetch_url after its await: the failure of the fetch, or the body with the
\* status, the content type and the final URL of the response.
ReturnFetched(p, contentTypes) ==
  /\ pc[p] = "resume"
  /\ op[p] = "fetch_url"
  /\ pc' = [pc EXCEPT ![p] = "done"]
  /\ IF awaited[p].error # NoResult
     THEN result' = [result EXCEPT ![p] = awaited[p].error]
     ELSE \E contentType \in contentTypes :
            result' = [result EXCEPT ![p] =
              createSuccessResponse(
                [html |-> awaited[p].html,
                 status_code |-> network[p].status,
                 content_type |-> contentType,
                 final_url |-> input[p].s],
                input[p].s, <<>>)]
  /\ UNCHANGED <<op, input, timer, awaited, origin, dom, prev, calls, fetches,
                 loads, network, now>>

\* The caller takes the response and is free to call again.
Return(p) ==
  /\ pc[p] = "done"
  /\ calls[p] < MaxCalls
  /\ prev' = [prev EXCEPT ![p] =
       [op |-> op[p], input |-> input[p], html |-> awaited[p].html,
        network |-> network[p], result |-> result[p]]]
  /\ pc' = [pc EXCEPT ![p] = "idle"]
  /\ result' = [result EXCEPT ![p] = NoResult]
  /\ UNCHANGED <<op, input, timer, awaited, origin, dom, calls, fetches, loads,
                 network, now>>

\* Time passes.
Tick ==
  /\ now < MaxClock
  /\ now' = now + 1
  /\ UNCHANGED <<pc, op, input, timer, awaited, result, origin, dom, prev, calls,
                 fetches, loads, network>>

NoCall == [op |-> "none", input |-> JSUndefined, html |-> JSUndefined,
           network |-> NoResponse, result |-> NoResult]

\* no request accepted yet
NoRequest == [method |-> "none", target |-> "none", session |-> "none",
             body |-> "none"]

NoExchange == [request |-> NoRequest, stage |-> "none", sent |-> <<>>]

InitWith(callers) ==
  /\ pc = [p \in Procs |-> IF p \in callers THEN "idle" ELSE "off"]
  /\ op = [p \in Procs |-> "none"]
  /\ input = [p \in Procs |-> JSUndefined]
  /\ timer = [p \in Procs |-> "none"]
  /\ awaited = [p \in Procs |-> NoAwaited]
  /\ result = [p \in Procs |-> NoResult]
  /\ origin = [p \in Procs |-> <<>>]
  /\ dom = [p \in Procs |-> NoTree]
  /\ prev = [p \in Procs |-> NoCall]
  /\ calls = [p \in Procs |-> 0]
  /\ fetches = [p \in Procs |-> 0]
  /\ loads = [p \in Procs |-> 0]
  /\ network = [p \in Procs |-> NoResponse]
  /\ now = 0
  /\ http = [p \in Procs |-> NoExchange]
  /\ sessions = {}

(***************************************************************************)
(* Any operation on any kind of input, with the network answering the      *)
(* request of a URL in every way: one caller, one call.                    *)
(***************************************************************************)
Ops == {"tables", "markdown", "metadata"}

Url == <<"http://", "h">>

Pages ==
  {Markup(<< Node("nav", 0, NoAttrs, <<"X">>),
             Node("main", 0, NoAttrs, <<>>),
             Node("h1", 2, NoAttrs, <<"T">>),
             Node("p", 2, NoAttrs, <<"Y">>) >>),
   Markup(<< Node("title", 0, NoAttrs, <<"Page">>),
             Node("table", 0, NoAttrs, <<>>),
             Node("tr", 2, NoAttrs, <<>>),
             Node("th", 3, NoAttrs, <<"Name">>),
             Node("tr", 2, NoAttrs, <<>>),
             Node("td", 5, NoAttrs, <<"Ann">>) >>)}

Inputs ==
  {JSUndefined, JSNumber("0"), JSNumber("7"), Str(<<>>, <<>>), Str(<<" ">>, <<>>),
   Str(<<"http://">>, <<>>), Str(Url, <<>>), Str(<<"https://", "h">>, <<>>)}
  \cup Pages

Statuses == {200, 404, 500}

\* what fetch rejects with when no connection is made
ConnectionFailures ==
  {Thrown(TRUE, "TypeError", <<"fetch failed">>),
   Thrown(TRUE, "Error", <<"getaddrinfo ", "ENOTFOUND", " h">>),
   Thrown(TRUE, "Error", <<"connect ", "ECONNREFUSED", " h">>)}

Errors ==
  ConnectionFailures
  \cup {Thrown(TRUE, "TypeError", <<"terminated">>), Thrown(FALSE, "", <<"oops">>)}

Bodies == Pages \cup {Str(<<>>, <<>>)}

Init == InitWith({1})

ContentTypes == {Null, <<"text/html">>}

Next ==
  \/ Call(1, Ops, Inputs) /\ UNCHANGED transportVars
  \/ CallFetchUrl(1, Inputs) /\ UNCHANGED transportVars
  \/ FetchResponds(1, Statuses) /\ UNCHANGED transportVars
  \/ FetchTimesOut(1) /\ UNCHANGED transportVars
  \/ FetchThrows(1, Errors) /\ UNCHANGED transportVars
  \/ BodyArrives(1, Bodies) /\ UNCHANGED transportVars
  \/ Resume(1) /\ UNCHANGED transportVars
  \/ ReturnFetched(1, ContentTypes) /\ UNCHANGED transportVars
  \/ Tick /\ UNCHANGED transportVars

Spec == Init /\ [][Next]_vars

(***************************************************************************)
(* Properties of the calls.                                                *)
(***************************************************************************)
\* the argument is missing, not a string, or the empty string
BadArgument(v) == v = JSUndefined \/ v.t # "string" \/ (v.t = "string" /\ v.s = <<>>)

Started(p) == pc[p] \notin {"off", "idle"}

Failed(p, code) ==
  /\ pc[p] = "done"
  /\ ~result[p].ok
  /\ result[p].error.code = code

\* C8: whatever the operation, a call whose html_or_url is missing, not a
\* string or the empty string has returned INVALID_INPUT as soon as it is
\* made: nothing was fetched and nothing was parsed.
C8_InvalidInputImmediate ==
  \A p \in Procs :
    (Started(p) /\ BadArgument(input[p])) =>
      /\ Failed(p, "INVALID_INPUT")
      /\ fetches[p] = 0
      /\ network[p] = NoResponse
      /\ loads[p] = 0

\* each operation has refused an argument: a number, nothing, an empty string
C8_Witness ==
  \E p \in Procs :
    /\ Failed(p, "INVALID_INPUT")
    /\ op[p] = "metadata"
    /\ input[p] = JSNumber("7")
    /\ fetches[p] = 0 /\ loads[p] = 0

\* the fetch of the call ended in a timeout, a status that is not 2xx, or
\* no connection
FetchFailure(n) ==
  \/ n.kind = "timeout"
  \/ n.kind = "status" /\ ~(n.status \in 200..299)
  \/ n.kind = "rejected" /\ n.error \in ConnectionFailures

RerunPages ==
  {Markup(<< Node("nav", 0, NoAttrs, <<>>),
             Node("h2", 1, NoAttrs, <<"U">>),
             Node("table", 0, NoAttrs, <<>>),
             Node("tr", 3, NoAttrs, <<>>),
             Node("td", 4, NoAttrs, <<"x">>),
             Meta("property", <<"og:", "title">>, <<"A">>) >>),
   Markup(<< Node("p", 0, NoAttrs, <<"Y">>) >>)}

RerunInputs == {JSUndefined, Str(<<" ">>, <<>>), Str(Url, <<>>)} \cup RerunPages

InitRerun == InitWith({1})

NextRerun ==
  \/ Call(1, IF prev[1] = NoCall THEN Ops ELSE {prev[1].op},
             IF prev[1] = NoCall THEN RerunInputs ELSE {prev[1].input}) /\ UNCHANGED transportVars
  \/ FetchResponds(1, {200, 404}) /\ UNCHANGED transportVars
  \/ FetchTimesOut(1) /\ UNCHANGED transportVars
  \/ FetchThrows(1, {Thrown(TRUE, "TypeError", <<"fetch failed">>)}) /\ UNCHANGED transportVars
  \/ BodyArrives(1, RerunPages) /\ UNCHANGED transportVars
  \/ Resume(1) /\ UNCHANGED transportVars
  \/ Return(1) /\ UNCHANGED transportVars
  \/ Tick /\ UNCHANGED transportVars

SpecRerun == InitRerun /\ [][NextRerun]_vars

\* the call repeats the caller's previous call
Rerun(p) ==
  /\ pc[p] = "done"
  /\ prev[p] # NoCall
  /\ prev[p].op = op[p]
  /\ prev[p].input = input[p]

\* a response but for meta.retrieved_at
Timeless(r) == [r EXCEPT !.meta.retrieved_at = 0]

\* C10 as stated: the same operation on the same input returns the same
\* response but for meta.retrieved_at.
C10_RerunIdentical ==
  \A p \in Procs :
    Rerun(p) => Timeless(result[p]) = Timeless(prev[p].result)

\* C10: the same operation on the same input returns the same response but
\* for meta.retrieved_at when, the input being a URL, the network answers
\* the two requests alike: the same outcome and the same body.
C10_RerunIdenticalOnSameMarkup ==
  \A p \in Procs :
    (Rerun(p) /\ prev[p].network = network[p] /\ prev[p].html = awaited[p].html) =>
      Timeless(result[p]) = Timeless(prev[p].result)

\* a document with a heading in its navigation was extracted from twice, at
\* different times, and the two responses differ in retrieved_at alone
C10_Witness ==
  \E p \in Procs :
    /\ Rerun(p)
    /\ op[p] = "markdown"
    /\ input[p] \in RerunPages
    /\ result[p].ok
    /\ Len(result[p].data.headings) = 1
    /\ result[p].meta.retrieved_at # prev[p].result.meta.retrieved_at
    /\ result[p].data = prev[p].result.data

(***************************************************************************)
(* The table engine on every table document: one caller, raw markup.       *)
(***************************************************************************)
\* a table with a role or a class, followed by a table that holds a table
LayoutAttrs ==
  { [role |-> <<"none">>], [role |-> <<"grid">>], [role |-> <<"Presentation">>],
    [class |-> <<"layout">>], [class |-> <<"my-", "Layout", "-x">>],
    [class |-> <<"page", "wrapper">>], [class |-> <<"Container">>],
    [class |-> <<"i", "frame", "d">>], [class |-> <<"data">>],
    [class |-> <<"lay", " ", "out">>], [class |-> <<>>],
    [role |-> <<"grid">>, class |-> <<"Frame">>] }

LayoutScenarios ==
  { << Node("table", 0, a, <<>>),
       Node("tr", 1, NoAttrs, <<>>), Node("td", 2, NoAttrs, <<"c">>),
       Node("table", 0, NoAttrs, <<>>),
       Node("tr", 4, NoAttrs, <<>>), Node("td", 5, NoAttrs, <<"o">>),
       Node("table", 6, b, <<>>),
       Node("tr", 7, NoAttrs, <<>>), Node("td", 8, NoAttrs, <<"i">>) >> :
      a \in LayoutAttrs, b \in {NoAttrs, [class |-> <<"wrapper">>]} }

TableInputs(n) ==
  {Markup(d) : d \in TableDocsUpTo(n) \cup TableScenarios \cup LayoutScenarios}

InitTables == InitWith({1})

NextTables ==
  \/ Call(1, {"tables"}, TableInputs(MaxTableNodes)) /\ UNCHANGED transportVars
  \/ Resume(1) /\ UNCHANGED transportVars
  \/ Tick /\ UNCHANGED transportVars

SpecTables == InitTables /\ [][NextTables]_vars

(***************************************************************************)
(* Properties of the table engine.                                         *)
(***************************************************************************)
TablesDone(p) == pc[p] = "done" /\ op[p] = "tables" /\ result[p].ok

\* the rows of a table as read, before column reconciliation
SourceRows(T, t) == extractRows(T, t, extractHeaders(T, t).usedFirstRowAsHeader)

\* C1: in every table record returned by extract_tables, every row has
\* exactly as many cells as the headers list.
C1_PaddingInvariant ==
  \A p \in Procs :
    TablesDone(p) =>
      \A k \in 1..Len(result[p].data.tables) :
        LET rec == result[p].data.tables[k]
        IN  \A r \in 1..Len(rec.rows) : Len(rec.rows[r]) = Len(rec.headers)

\* a record whose table had a row shorter than another row or than the
\* header row, and one whose header row was shorter than a row
C1_Witness ==
  \E p \in Procs :
    /\ TablesDone(p)
    /\ \E k \in 1..Len(result[p].data.tables) :
         LET rec == result[p].data.tables[k]
             src == SourceRows(dom[p], origin[p][k])
         IN  /\ \E r \in 1..Len(src) : Len(src[r]) < Len(rec.headers)
             /\ Len(extractHeaders(dom[p], origin[p][k]).headers) < Len(rec.headers)

\* C2: no record of the response comes from a table with
\* role="presentation", and a document of one such table and one data
\* table (a table without role that has a header text or a row) yields
\* count 1.
C2_PresentationExcluded ==
  \A p \in Procs :
    TablesDone(p) =>
      LET T == dom[p]
          all == Query(T, {"table"})
          pres == {t \in T.live : T.nodes[t].tag = "table"
                                  /\ Attr(T, t, "role") = <<"presentation">>}
      IN  /\ \A k \in 1..Len(origin[p]) : origin[p][k] \notin pres
          /\ Len(origin[p]) = Len(result[p].data.tables)
          /\ ( /\ Len(all) = 2
               /\ Cardinality(pres) = 1
               /\ \E t \in T.live \ pres :
                    /\ T.nodes[t].tag = "table"
                    /\ Attr(T, t, "role") = Undefined
                    /\ extractTable(T, t) # NoTable )
             => result[p].data.count = 1

\* the layout table has cells with text, the data table is returned
C2_Witness ==
  \E p \in Procs :
    /\ TablesDone(p)
    /\ result[p].data.count = 1
    /\ \E t \in dom[p].live :
         /\ dom[p].nodes[t].tag = "table"
         /\ Attr(dom[p], t, "role") = <<"presentation">>
         /\ Parents(dom[p], t, "table") = {}
         /\ \E c \in Descendants(dom[p], t) : dom[p].nodes[c].text # <<>>
         /\ origin[p] # <<>>
         /\ origin[p][1] > t

(***************************************************************************)
(* The markdown engine on every markdown document: one caller, raw markup. *)
(***************************************************************************)
MarkdownInputs(n) ==
  {Markup(d) : d \in MarkdownDocsUpTo(n) \cup MarkdownScenarios}

InitMarkdown == InitWith({1})

NextMarkdown ==
  \/ Call(1, {"markdown"}, MarkdownInputs(MaxMarkdownNodes)) /\ UNCHANGED transportVars
  \/ Resume(1) /\ UNCHANGED transportVars
  \/ Tick /\ UNCHANGED transportVars

SpecMarkdown == InitMarkdown /\ [][NextMarkdown]_vars

(***************************************************************************)
(* Properties of the markdown engine.                                      *)
(***************************************************************************)
MarkdownDone(p) == pc[p] = "done" /\ op[p] = "markdown" /\ result[p].ok

\* the document of the call as the loader built it
Loaded(p) == Load(dom[p].nodes)

\* the heading elements with text, in document order
HeadingElements(T) ==
  SelectSeq([i \in 1..Len(T.nodes) |-> i],
            LAMBDA i : /\ T.nodes[i].tag \in HeadingTags
                       /\ Trim(TextOf(T, i)) # <<>>)

\* the symbols other than whitespace of the text of a set of elements
Symbols(T, S) ==
  {x \in UNION {{T.nodes[i].text[k] : k \in 1..Len(T.nodes[i].text)} : i \in S} :
     ~IsWhitespace(x)}

Range(s) == {s[k] : k \in 1..Len(s)}

\* C3: the headings have a level in 1..6 and are the headings with text of
\* the document as loaded, in document order; one that stands in an element
\* the filter removes is among them although its text is not in the markdown.
C3_HeadingsBeforeFilter ==
  \A p \in Procs :
    MarkdownDone(p) =>
      LET hs == result[p].data.headings
          els == HeadingElements(Loaded(p))
      IN  /\ \A k \in 1..Len(hs) : hs[k].level \in 1..6
          /\ Len(hs) = Len(els)
          /\ \A k \in 1..Len(els) :
               /\ hs[k].level = HeadingLevel(dom[p].nodes[els[k]].tag)
               /\ hs[k].text = Trim(TextOf(Loaded(p), els[k]))
               /\ ( /\ els[k] \notin dom[p].live
                    /\ Symbols(Loaded(p), dom[p].live) \cap Range(hs[k].text) = {} )
                  => ~Includes(result[p].data.markdown, hs[k].text)

\* a heading in a removed element is returned before a heading that stays
C3_Witness ==
  \E p \in Procs :
    /\ MarkdownDone(p)
    /\ \E k \in 1..Len(result[p].data.headings) :
         /\ HeadingElements(Loaded(p))[k] \notin dom[p].live
         /\ k < Len(result[p].data.headings)
         /\ HeadingElements(Loaded(p))[k + 1] \in dom[p].live
         /\ Includes(result[p].data.markdown,
                     result[p].data.headings[k + 1].text)
         /\ ~Includes(result[p].data.markdown, result[p].data.headings[k].text)

\* the elements of the deny-list and all that is below them
Boilerplate(T) ==
  {i \in T.live :
     \/ Removed(T, i, ELEMENTS_TO_REMOVE)
     \/ \E a \in Ancestors(T.nodes, i) : Removed(T, a, ELEMENTS_TO_REMOVE)}

ScenarioNavMain ==
  << Node("nav", 0, NoAttrs, <<"X">>),
     Node("main", 0, NoAttrs, <<>>),
     Node("h1", 2, NoAttrs, <<"T">>), Node("p", 2, NoAttrs, <<"Y">>) >>

\* C4: text that occurs only in elements of the deny-list or below them is
\* not in the markdown; <nav>X</nav><main><h1>T</h1><p>Y</p></main> gives a
\* markdown with "# T" and "Y" and without "X".
C4_BoilerplateTextAbsent ==
  \A p \in Procs :
    MarkdownDone(p) =>
      LET T == Loaded(p)
          md == result[p].data.markdown
      IN  /\ \A x \in Symbols(T, Boilerplate(T)) \ Symbols(T, T.live \ Boilerplate(T)) :
               x \notin Range(md)
          /\ dom[p].nodes = ScenarioNavMain =>
               /\ Includes(md, <<"#", " ", "T">>)
               /\ Includes(md, <<"Y">>)
               /\ ~Includes(md, <<"X">>)

\* the document has text in the navigation only, and content that is rendered
C4_Witness ==
  \E p \in Procs :
    /\ MarkdownDone(p)
    /\ \E i \in 1..Len(dom[p].nodes) :
         /\ dom[p].nodes[i].tag = "nav"
         /\ Symbols(Loaded(p), {i}) # {}
         /\ Symbols(Loaded(p), {i}) \cap Symbols(Loaded(p), dom[p].live) = {}
    /\ result[p].data.markdown # <<>>

\* C5: the markdown has no three newlines in a row and neither starts nor
\* ends with whitespace.
C5_NoNewlineRuns ==
  \A p \in Procs :
    MarkdownDone(p) =>
      LET md == result[p].data.markdown
      IN  /\ ~Includes(md, <<"\n", "\n", "\n">>)
          /\ md # <<>> => ~IsWhitespace(md[1]) /\ ~IsWhitespace(md[Len(md)])

\* what Turndown rendered had two runs of three newlines or more, in a
\* fenced block
C5_Witness ==
  \E p \in Procs :
    /\ MarkdownDone(p)
    /\ Includes(turndown(dom[p], findMainContent(dom[p])),
                <<"<fence>", "\n", "a", "\n", "\n", "\n", "b", "\n", "\n", "\n", "\n", "c">>)
    /\ Includes(result[p].data.markdown,
                <<"<fence>", "\n", "a", "\n", "\n", "b", "\n", "\n", "c">>)

(***************************************************************************)
(* The metadata engine on every metadata document: one caller, raw markup. *)
(***************************************************************************)
MetaInputs(n) == {Markup(d) : d \in MetaDocsUpTo(n) \cup MetaScenarios}

InitMeta == InitWith({1})

NextMeta ==
  \/ Call(1, {"metadata"}, MetaInputs(MaxMetaNodes)) /\ UNCHANGED transportVars
  \/ Resume(1) /\ UNCHANGED transportVars
  \/ Tick /\ UNCHANGED transportVars

SpecMeta == InitMeta /\ [][NextMeta]_vars

(***************************************************************************)
(* Properties of extract_metadata.                                         *)
(***************************************************************************)
\* the call parsed its document as metadata
MetaParsed(p) == pc[p] = "done" /\ op[p] = "metadata" /\ loads[p] = 1

MetaDone(p) == MetaParsed(p) /\ result[p].ok

\* the JSON-LD blocks of the document, in document order
JsonLdBlocks(T) ==
  SelectSeq([i \in 1..Len(T.nodes) |-> i],
            LAMBDA i : /\ T.nodes[i].tag = "script"
                       /\ "type" \in DOMAIN T.nodes[i].attrs
                       /\ T.nodes[i].attrs["type"] = <<"application/ld+json">>)

Parses(T, b) == JSONparse(T.nodes[b].text).ok

MetadataWarnings ==
  {"No title found in the document", "No description found in the document",
   "No Open Graph metadata found"}

\* C6: a JSON-LD block that is not valid JSON is left out of json_ld, the
\* extraction succeeds and warns of nothing but a missing title, description
\* or Open Graph data; the blocks that parse are kept, one record each, in
\* document order.
C6_InvalidJsonLdSkipped ==
  \A p \in Procs :
    MetaParsed(p) =>
      LET T == Loaded(p)
          parsing == SelectSeq(JsonLdBlocks(T), LAMBDA b : Parses(T, b))
      IN  /\ result[p].ok
          /\ Len(result[p].data.json_ld) = Len(parsing)
          /\ \A k \in 1..Len(parsing) :
               result[p].data.json_ld[k] = JSONparse(T.nodes[parsing[k]].text).value
          /\ Range(result[p].meta.warnings) \subseteq MetadataWarnings
          /\ ("No title found in the document" \in Range(result[p].meta.warnings))
               <=> (result[p].data.title = Undefined)
          /\ ("No description found in the document"
                \in Range(result[p].meta.warnings))
               <=> (result[p].data.description = Undefined)
          /\ ("No Open Graph metadata found" \in Range(result[p].meta.warnings))
               <=> (DOMAIN result[p].data.open_graph = {})

\* a block that does not parse stood between two that do; the two were kept
C6_Witness ==
  \E p \in Procs :
    /\ MetaDone(p)
    /\ \E a, b, c \in 1..Len(dom[p].nodes) :
         /\ a < b /\ b < c
         /\ {a, b, c} \subseteq Range(JsonLdBlocks(dom[p]))
         /\ Parses(dom[p], a) /\ ~Parses(dom[p], b) /\ Parses(dom[p], c)
         /\ dom[p].nodes[b].text # <<>>
    /\ Len(result[p].data.json_ld) = 2
    /\ result[p].meta.warnings # <<>>

\* the trimmed text of the title element, the first of the document
TitleText(T) ==
  LET titles == SelectSeq([i \in 1..Len(T.nodes) |-> i],
                          LAMBDA i : T.nodes[i].tag = "title")
  IN  IF titles = <<>> THEN <<>> ELSE Trim(TextOf(T, titles[1]))

\* the contents, other than empty, of the og:title meta elements
OgTitles(T) ==
  {T.nodes[i].attrs["content"] :
     i \in {j \in 1..Len(T.nodes) :
              /\ T.nodes[j].tag = "meta"
              /\ {"property", "content"} \subseteq DOMAIN T.nodes[j].attrs
              /\ T.nodes[j].attrs["property"] = <<"og:", "title">>
              /\ T.nodes[j].attrs["content"] # <<>>}}

\* C7: the title is the trimmed text of the title element if that is not
\* empty, else the content of an og:title meta element when the document
\* has one that is not empty, else absent.
C7_TitleChain ==
  \A p \in Procs :
    MetaDone(p) =>
      LET T == Loaded(p)
      IN  IF TitleText(T) # <<>> THEN result[p].data.title = TitleText(T)
          ELSE IF OgTitles(T) # {} THEN result[p].data.title \in OgTitles(T)
          ELSE result[p].data.title = Undefined

(***************************************************************************)
(* Concurrent calls: every caller makes a call, on raw markup or on a URL, *)
(* and the calls interleave at their awaits.                               *)
(***************************************************************************)
\* a table, a heading and a JSON-LD block that the boilerplate filter of
\* extract_readable_markdown removes, and a paragraph that it keeps
ConcPage ==
  Markup(<< Node("title", 0, NoAttrs, <<"Page">>),
            Node("nav", 0, NoAttrs, <<>>),
            Node("table", 2, NoAttrs, <<>>),
            Node("tr", 3, NoAttrs, <<>>),
            Node("td", 4, NoAttrs, <<"x">>),
            Node("h2", 2, NoAttrs, <<"U">>),
            JsonLd(JsonAuthorString),
            Node("p", 0, NoAttrs, <<"Y">>) >>)

ConcInputs == {ConcPage, Str(Url, <<>>)}

InitConc == InitWith(Procs)

NextConc ==
  \E p \in Procs :
    \/ Call(p, Ops, ConcInputs) /\ UNCHANGED transportVars
    \/ FetchResponds(p, {200}) /\ UNCHANGED transportVars
    \/ FetchTimesOut(p) /\ UNCHANGED transportVars
    \/ BodyArrives(p, {ConcPage}) /\ UNCHANGED transportVars
    \/ Resume(p) /\ UNCHANGED transportVars

SpecConc == InitConc /\ [][NextConc]_vars

\* what an operation returns on a document when it runs alone
Alone(o, doc, src) ==
  CASE o = "tables" -> tablesResponse(Load(doc), src).response
    [] o = "markdown" -> markdownResponse(Load(doc), src).response
    [] o = "metadata" -> metadataResponse(Load(doc), src).response

\* C11: whatever the interleaving, a call that extracts returns what its
\* operation returns alone on the same markup, and the tree of an
\* extract_tables or extract_metadata call has lost no element.
C11_NoSharedState ==
  \A p \in Procs :
    (pc[p] = "done" /\ loads[p] = 1) =>
      /\ Timeless(result[p]) =
           Timeless(Alone(op[p], awaited[p].html.doc, awaited[p].source))
      /\ op[p] # "markdown" => dom[p] = Load(awaited[p].html.doc)

\* extract_readable_markdown has removed the navigation from its tree, and
\* extract_tables and extract_metadata of other callers, on the same markup,
\* have found the table and the JSON-LD block that stand in it
C11_Witness ==
  \E p, q \in Procs :
    /\ p # q
    /\ pc[p] = "done" /\ op[p] = "markdown" /\ input[p] = ConcPage
    /\ dom[p].live # 1..Len(dom[p].nodes)
    /\ pc[q] = "done" /\ op[q] \in {"tables", "metadata"} /\ input[q] = ConcPage
    /\ op[q] = "tables" => result[q].data.count = 1
    /\ op[q] = "metadata" => Len(result[q].data.json_ld) = 1

(***************************************************************************)
(* More properties of extract_tables.                                      *)
(***************************************************************************)
\* the call parsed its document for tables
TablesParsed(p) == pc[p] = "done" /\ op[p] = "tables" /\ loads[p] = 1

TableElements(T) == {t \in 1..Len(T.nodes) : T.nodes[t].tag = "table"}

\* the th and td elements below an element
CellsBelow(T, e) ==
  {c \in 1..Len(T.nodes) : T.nodes[c].tag \in {"th", "td"}
                           /\ e \in Ancestors(T.nodes, c)}

\* a table marked as presentation, or inside two tables or more
MarkedLayout(T, t) ==
  \/ "role" \in DOMAIN T.nodes[t].attrs
     /\ T.nodes[t].attrs["role"] \in {<<"presentation">>, <<"none">>}
  \/ Cardinality({a \in Ancestors(T.nodes, t) : T.nodes[a].tag = "table"}) > 1

\* a table without a cell, or without thead whose cells all stand in its
\* first row and are header cells without text
WithoutContent(T, t) ==
  \/ CellsBelow(T, t) = {}
  \/ \E r \in 1..Len(T.nodes) :
       /\ T.nodes[r].tag = "tr"
       /\ \A h \in 1..Len(T.nodes) :
            ~(T.nodes[h].tag = "thead" /\ t \in Ancestors(T.nodes, h))
       /\ t \in Ancestors(T.nodes, r)
       /\ \A q \in 1..(r - 1) :
            ~(T.nodes[q].tag = "tr" /\ t \in Ancestors(T.nodes, q))
       /\ CellsBelow(T, t) = CellsBelow(T, r)
       /\ \A c \in CellsBelow(T, r) :
            /\ T.nodes[c].parent = r
            /\ T.nodes[c].tag = "th"
            /\ Trim(T.nodes[c].text) = <<>>

NoTablesWarning == "No data tables found in the document"

\* C12: extract_tables on markup succeeds; when the document has no table,
\* only layout tables or only tables without content, tables is empty and
\* count is 0; the warning "No data tables found in the document" is the
\* only warning and is attached exactly when count is 0.
C12_NoTablesIsSuccess ==
  \A p \in Procs :
    TablesParsed(p) =>
      LET T == Loaded(p)
      IN  /\ result[p].ok
          /\ result[p].data.count = Len(result[p].data.tables)
          /\ (\A t \in TableElements(T) : MarkedLayout(T, t) \/ WithoutContent(T, t))
               => /\ result[p].data.tables = <<>>
                  /\ result[p].data.count = 0
          /\ result[p].meta.warnings =
               IF result[p].data.count = 0 THEN <<NoTablesWarning>> ELSE <<>>

\* a document whose only table has an empty header cell and nothing else
\* gave no record, and the warning
C12_Witness ==
  \E p \in Procs :
    /\ TablesParsed(p)
    /\ \E t \in TableElements(dom[p]) :
         /\ TableElements(dom[p]) = {t}
         /\ ~MarkedLayout(dom[p], t)
         /\ CellsBelow(dom[p], t) # {}
         /\ WithoutContent(dom[p], t)
    /\ result[p].ok
    /\ result[p].data.count = 0
    /\ result[p].meta.warnings = <<NoTablesWarning>>

(***************************************************************************)
(* More properties of extract_metadata.                                    *)
(***************************************************************************)
\* the warnings a response is due: one for each of the three conditions
\* that holds of its data
WarningsDue(data) ==
  SelectSeq(<<"No title found in the document",
              "No description found in the document",
              "No Open Graph metadata found">>,
            LAMBDA w :
              \/ w = "No title found in the document" /\ data.title = Undefined
              \/ w = "No description found in the document"
                 /\ data.description = Undefined
              \/ w = "No Open Graph metadata found" /\ DOMAIN data.open_graph = {})

\* C13: extract_metadata on markup succeeds whatever fields are missing, and
\* its warnings are the title warning when title is absent, the description
\* warning when description is absent and the Open Graph warning when
\* open_graph is empty, and nothing else.
C13_MetadataWarnings ==
  \A p \in Procs :
    MetaParsed(p) =>
      /\ result[p].ok
      /\ result[p].meta.warnings = WarningsDue(result[p].data)

\* a document with a description and nothing else: two warnings of three
C13_Witness ==
  \E p \in Procs :
    /\ MetaDone(p)
    /\ result[p].data.title = Undefined
    /\ result[p].data.description = <<"D">>
    /\ result[p].data.author = Undefined
    /\ DOMAIN result[p].data.open_graph = {}
    /\ result[p].meta.warnings =
         <<"No title found in the document", "No Open Graph metadata found">>

(***************************************************************************)
(* The envelopes.                                                          *)
(***************************************************************************)
ErrorCodes ==
  {"INVALID_INPUT", "UPSTREAM_ERROR", "RATE_LIMITED", "TIMEOUT", "PARSE_ERROR",
   "INTERNAL_ERROR"}

IsList(s) == DOMAIN s = 1..Len(s)

SuccessEnvelope(r) ==
  /\ DOMAIN r = {"ok", "data", "meta"}
  /\ r.ok = TRUE
  /\ DOMAIN r.meta = {"source", "retrieved_at", "pagination", "warnings"}
  /\ r.meta.retrieved_at \in 0..MaxClock
  /\ r.meta.pagination = [next_cursor |-> Null]
  /\ IsList(r.meta.warnings)

FailureEnvelope(r) ==
  /\ DOMAIN r = {"ok", "error", "meta"}
  /\ r.ok = FALSE
  /\ {"code", "message"} \subseteq DOMAIN r.error
  /\ r.error.code \in ErrorCodes
  /\ DOMAIN r.meta = {"retrieved_at"}
  /\ r.meta.retrieved_at \in 0..MaxClock

\* C14: every response of fetch_url, extract_readable_markdown,
\* extract_tables and extract_metadata is a success envelope (ok, data, meta
\* with retrieved_at, pagination.next_cursor null and a warnings list) or a
\* failure envelope (ok false, error with one of the six codes and a
\* message, meta with retrieved_at), never both.
C14_OneEnvelope ==
  \A p \in Procs :
    pc[p] = "done" =>
      /\ op[p] \in Ops \cup {"fetch_url"}
      /\ SuccessEnvelope(result[p]) \/ FailureEnvelope(result[p])
      /\ ~("data" \in DOMAIN result[p] /\ "error" \in DOMAIN result[p])

\* fetch_url has returned a page in a success envelope
C14_Witness ==
  \E p \in Procs :
    /\ pc[p] = "done"
    /\ op[p] = "fetch_url"
    /\ SuccessEnvelope(result[p])
    /\ result[p].data.html \in Pages
    /\ result[p].data.status_code = 200
    /\ result[p].meta.source = Url

(***************************************************************************)
(* The stateless HTTP transport (src/transport/http.ts).  A handler serves  *)
(* one request: http[p] holds the request, the stage of the handler (none,  *)
(* reading the body, calling a tool, ended, rejected) and what it sent.     *)
(***************************************************************************)
\* new URL(req.url, "http://" + host) throws a TypeError for a request target
\* whose authority is empty
UrlThrows(target) == target = "//"

\* url.pathname
pathname(target) ==
  CASE target \in {"/mcp", "/mcp?x=1"} -> "/mcp"
    [] target = "/health" -> "/health"
    [] OTHER -> target

toolNames == {"fetch_url", "extract_readable_markdown", "extract_tables",
              "extract_metadata"}

\* the operation behind a tool name
ToolOp(name) ==
  CASE name = "extract_readable_markdown" -> "markdown"
    [] name = "extract_tables" -> "tables"
    [] name = "extract_metadata" -> "metadata"
    [] OTHER -> name

\* params.arguments, and params
NoArguments == [given |-> FALSE, html_or_url |-> JSUndefined, url |-> JSUndefined]

Arguments(html_or_url, url) ==
  [given |-> TRUE, html_or_url |-> html_or_url, url |-> url]

Params(name, arguments) == [name |-> name, arguments |-> arguments]

NoParams == Params("undefined", NoArguments)

\* what JSON.parse makes of a request body
Rpc(jsonrpc, id, method, params) ==
  [syntax |-> "ok", null |-> FALSE, jsonrpc |-> jsonrpc, id |-> id,
   method |-> method, params |-> params]

SyntaxError == [Rpc(JSUndefined, JSUndefined, "undefined", NoParams)
                  EXCEPT !.syntax = "error"]

JsonNullBody == [Rpc(JSUndefined, JSUndefined, "undefined", NoParams)
                   EXCEPT !.null = TRUE]

V2 == Str(<<"2.0">>, <<>>)

\* the page and the address that the bodies of tools/call requests carry
RequestPage ==
  Markup(<< Node("title", 0, NoAttrs, <<"Page">>),
            Node("table", 0, NoAttrs, <<>>),
            Node("tr", 2, NoAttrs, <<>>),
            Node("td", 3, NoAttrs, <<"x">>) >>)

RequestUrl == Str(<<"http://", "h">>, <<>>)

ToolCall(id, name, arguments) ==
  Rpc(V2, id, "tools/call", Params(name, arguments))

\* JSON.parse(body)
parseRequest(body) ==
  CASE body = "null" -> JsonNullBody
    [] body = "{}" -> Rpc(JSUndefined, JSUndefined, "undefined", NoParams)
    [] body = "{\"id\":7,\"method\":\"tools/list\"}" ->
         Rpc(JSUndefined, JSNumber("7"), "tools/list", NoParams)
    [] body = "{\"jsonrpc\":\"1.0\",\"id\":1,\"method\":\"initialize\"}" ->
         Rpc(Str(<<"1.0">>, <<>>), JSNumber("1"), "initialize", NoParams)
    [] body = "{\"jsonrpc\":\"1.0\",\"method\":\"initialize\"}" ->
         Rpc(Str(<<"1.0">>, <<>>), JSUndefined, "initialize", NoParams)
    [] body = "{\"jsonrpc\":2,\"id\":1,\"method\":\"initialize\"}" ->
         Rpc(JSNumber("2"), JSNumber("1"), "initialize", NoParams)
    [] body = "{\"jsonrpc\":\"2.0\",\"id\":1,\"method\":\"initialize\"}" ->
         Rpc(V2, JSNumber("1"), "initialize", NoParams)
    [] body = "{\"jsonrpc\":\"2.0\",\"id\":2,\"method\":\"tools/list\"}" ->
         Rpc(V2, JSNumber("2"), "tools/list", NoParams)
    [] body = "{\"jsonrpc\":\"2.0\",\"method\":\"tools/list\"}" ->
         Rpc(V2, JSUndefined, "tools/list", NoParams)
    [] body = "{\"jsonrpc\":\"2.0\",\"id\":3,\"method\":\"unknown/method\"}" ->
         Rpc(V2, JSNumber("3"), "unknown/method", NoParams)
    [] body = "{\"jsonrpc\":\"2.0\",\"id\":4}" ->
         Rpc(V2, JSNumber("4"), "undefined", NoParams)
    [] body = "{\"jsonrpc\":\"2.0\",\"id\":5,\"method\":\"tools/call\"}" ->
         Rpc(V2, JSNumber("5"), "tools/call", NoParams)
    [] body = "{\"jsonrpc\":\"2.0\",\"id\":0,\"method\":\"tools/call\",\"params\":{\"name\":\"unknown_tool\",\"arguments\":{}}}" ->
         ToolCall(JSNumber("0"), "unknown_tool",
                  Arguments(JSUndefined, JSUndefined))
    [] body = "{\"jsonrpc\":\"2.0\",\"id\":6,\"method\":\"tools/call\",\"params\":{\"name\":\"extract_tables\"}}" ->
         ToolCall(JSNumber("6"), "extract_tables", NoArguments)
    [] body = "{\"jsonrpc\":\"2.0\",\"method\":\"tools/call\",\"params\":{\"name\":\"fetch_url\"}}" ->
         ToolCall(JSUndefined, "fetch_url", NoArguments)
    [] body = "{\"jsonrpc\":\"2.0\",\"id\":7,\"method\":\"tools/call\",\"params\":{\"name\":\"extract_tables\",\"arguments\":{}}}" ->
         ToolCall(JSNumber("7"), "extract_tables",
                  Arguments(JSUndefined, JSUndefined))
    [] body = "{\"jsonrpc\":\"2.0\",\"id\":8,\"method\":\"tools/call\",\"params\":{\"name\":\"extract_tables\",\"arguments\":{\"html_or_url\":\"<page>\"}}}" ->
         ToolCall(JSNumber("8"), "extract_tables",
                  Arguments(RequestPage, JSUndefined))
    [] body = "{\"jsonrpc\":\"2.0\",\"id\":9,\"method\":\"tools/call\",\"params\":{\"name\":\"extract_readable_markdown\",\"arguments\":{\"html_or_url\":\"<page>\"}}}" ->
         ToolCall(JSNumber("9"), "extract_readable_markdown",
                  Arguments(RequestPage, JSUndefined))
    [] body = "{\"jsonrpc\":\"2.0\",\"id\":10,\"method\":\"tools/call\",\"params\":{\"name\":\"extract_metadata\",\"arguments\":{\"html_or_url\":\"http://h\"}}}" ->
         ToolCall(JSNumber("10"), "extract_metadata",
                  Arguments(RequestUrl, JSUndefined))
    [] body = "{\"jsonrpc\":\"2.0\",\"method\":\"tools/call\",\"params\":{\"name\":\"fetch_url\",\"arguments\":{\"url\":\"http://h\"}}}" ->
         ToolCall(JSUndefined, "fetch_url",
                  Arguments(JSUndefined, RequestUrl))
    [] body = "{\"jsonrpc\":\"2.0\",\"id\":11,\"method\":\"tools/call\",\"params\":{\"name\":\"fetch_url\",\"arguments\":{\"url\":7}}}" ->
         ToolCall(JSNumber("11"), "fetch_url",
                  Arguments(JSUndefined, JSNumber("7")))
    [] OTHER -> SyntaxError

\* the stream of the body ends in an error
ReadFailure == "<error>"

RequestBodies ==
  { "{", "null", "{}",
    "{\"id\":7,\"method\":\"tools/list\"}",
    "{\"jsonrpc\":\"1.0\",\"id\":1,\"method\":\"initialize\"}",
    "{\"jsonrpc\":\"1.0\",\"method\":\"initialize\"}",
    "{\"jsonrpc\":2,\"id\":1,\"method\":\"initialize\"}",
    "{\"jsonrpc\":\"2.0\",\"id\":1,\"method\":\"initialize\"}",
    "{\"jsonrpc\":\"2.0\",\"id\":2,\"method\":\"tools/list\"}",
    "{\"jsonrpc\":\"2.0\",\"method\":\"tools/list\"}",
    "{\"jsonrpc\":\"2.0\",\"id\":3,\"method\":\"unknown/method\"}",
    "{\"jsonrpc\":\"2.0\",\"id\":4}",
    "{\"jsonrpc\":\"2.0\",\"id\":5,\"method\":\"tools/call\"}",
    "{\"jsonrpc\":\"2.0\",\"id\":0,\"method\":\"tools/call\",\"params\":{\"name\":\"unknown_tool\",\"arguments\":{}}}",
    "{\"jsonrpc\":\"2.0\",\"id\":6,\"method\":\"tools/call\",\"params\":{\"name\":\"extract_tables\"}}",
    "{\"jsonrpc\":\"2.0\",\"method\":\"tools/call\",\"params\":{\"name\":\"fetch_url\"}}",
    "{\"jsonrpc\":\"2.0\",\"id\":7,\"method\":\"tools/call\",\"params\":{\"name\":\"extract_tables\",\"arguments\":{}}}",
    "{\"jsonrpc\":\"2.0\",\"id\":8,\"method\":\"tools/call\",\"params\":{\"name\":\"extract_tables\",\"arguments\":{\"html_or_url\":\"<page>\"}}}",
    "{\"jsonrpc\":\"2.0\",\"id\":9,\"method\":\"tools/call\",\"params\":{\"name\":\"extract_readable_markdown\",\"arguments\":{\"html_or_url\":\"<page>\"}}}",
    "{\"jsonrpc\":\"2.0\",\"id\":10,\"method\":\"tools/call\",\"params\":{\"name\":\"extract_metadata\",\"arguments\":{\"html_or_url\":\"http://h\"}}}",
    "{\"jsonrpc\":\"2.0\",\"method\":\"tools/call\",\"params\":{\"name\":\"fetch_url\",\"arguments\":{\"url\":\"http://h\"}}}",
    "{\"jsonrpc\":\"2.0\",\"id\":11,\"method\":\"tools/call\",\"params\":{\"name\":\"fetch_url\",\"arguments\":{\"url\":7}}}" }

\* JSON.stringify leaves out a member whose value is undefined
JSONstringify(data) ==
  IF "id" \in DOMAIN data /\ data.id = JSUndefined
  THEN [k \in DOMAIN data \ {"id"} |-> data[k]]
  ELSE data

\* sendJson(res, statusCode, data): the head and the body are written and
\* the response is ended
sendJson(x, statusCode, data) ==
  [x EXCEPT !.sent = Append(@, [status |-> statusCode,
                                body |-> JSONstringify(data)]),
            !.stage = "ended"]

handleHealthCheck(x) ==
  sendJson(x, 200, [status |-> "healthy", service |-> "webpage-extract",
                    version |-> "1.0.0"])

handleNotFound(x) == sendJson(x, 404, [error |-> "Not found"])

handleMethodNotAllowed(x) == sendJson(x, 405, [error |-> "Method not allowed"])

\* the two shapes of a JSON-RPC response
RpcResult(id, value) == [jsonrpc |-> "2.0", id |-> id, result |-> value]

RpcError(id, code, message) ==
  [jsonrpc |-> "2.0", id |-> id, error |-> [code |-> code, message |-> message]]

\* !request.jsonrpc || request.jsonrpc !== "2.0"
invalidVersion(request) == Not(request.jsonrpc) \/ request.jsonrpc # V2

\* request.id || 0
idOrZero(request) == IF Not(request.id) THEN JSNumber("0") ELSE request.id

\* the request reaches one of the four tool functions
RunsTool(request) ==
  /\ request.syntax = "ok"
  /\ ~request.null
  /\ ~invalidVersion(request)
  /\ request.method = "tools/call"
  /\ request.params.name \in toolNames

\* handleJsonRpcRequest for a request that reaches no tool function
handleJsonRpcRequest(request) ==
  CASE request.method = "initialize" ->
         RpcResult(request.id,
                   [protocolVersion |-> "2024-11-05",
                    serverInfo |-> [name |-> "webpage-extract",
                                    version |-> "1.0.0"]])
    [] request.method = "tools/list" ->
         RpcResult(request.id, [tools |-> toolNames])
    [] request.method = "tools/call" ->
         RpcError(request.id, -32601,
                  <<"Unknown tool: ", request.params.name>>)
    [] OTHER ->
         RpcError(request.id, -32601,
                  <<"Method not found: ", request.method>>)

\* The listener of createHttpServer up to its first await: the target is
\* parsed outside the try block, so a target that does not parse rejects the
\* listener before anything is sent; otherwise the path and the method
\* select the handler.
onRequest(p, requests) ==
  /\ http[p].stage = "none"
  /\ \E r \in requests :
       \E x \in {[http[p] EXCEPT !.request = r]} :
         http' = [http EXCEPT ![p] =
           IF UrlThrows(r.target)
           THEN [x EXCEPT !.stage = "rejected"]
           ELSE CASE pathname(r.target) = "/mcp" /\ r.method = "POST" ->
                       [x EXCEPT !.stage = "reading"]
                  [] pathname(r.target) = "/mcp" /\ r.method # "POST" ->
                       handleMethodNotAllowed(x)
                  [] pathname(r.target) = "/health" /\ r.method = "GET" ->
                       handleHealthCheck(x)
                  [] pathname(r.target) = "/health" /\ r.method # "GET" ->
                       handleMethodNotAllowed(x)
                  [] OTHER -> handleNotFound(x)]
  /\ UNCHANGED toolVars
  /\ UNCHANGED sessions

\* handleMcpRequest for a body that reaches no tool function: the body is
\* read and parsed, the version is checked and the request is answered.
handleMcpRequest(p, bodies) ==
  /\ http[p].stage = "reading"
  /\ \E b \in bodies \cup {ReadFailure} :
       \E request \in {parseRequest(b)},
          x \in {[http[p] EXCEPT !.request.body = b]} :
         /\ ~RunsTool(request)
         /\ http' = [http EXCEPT ![p] =
              CASE b = ReadFailure ->
                     sendJson(x, 500, [ok |-> FALSE, error |-> <<"aborted">>])
                [] b # ReadFailure /\ request.syntax = "error" ->
                     sendJson(x, 500, [ok |-> FALSE,
                                       error |-> <<"Unexpected token">>])
                [] b # ReadFailure /\ request.syntax = "ok" /\ request.null ->
                     sendJson(x, 500,
                       [ok |-> FALSE,
                        error |-> <<"Cannot read properties of null">>])
                [] OTHER ->
                     IF invalidVersion(request)
                     THEN sendJson(x, 400,
                            RpcError(idOrZero(request), -32600,
                              <<"Invalid Request: missing or invalid jsonrpc version">>))
                     ELSE sendJson(x, 200, handleJsonRpcRequest(request))]
  /\ UNCHANGED toolVars
  /\ UNCHANGED sessions

\* tools/call with the name of a tool and its arguments: the tool function
\* runs up to its first await.
toolsCall(p, bodies) ==
  /\ http[p].stage = "reading"
  /\ \E b \in bodies :
       \E request \in {parseRequest(b)} :
         /\ RunsTool(request)
         /\ request.params.arguments.given
         /\ http' = [http EXCEPT ![p].request.body = b, ![p].stage = "calling"]
         /\ IF request.params.name = "fetch_url"
            THEN CallFetchUrl(p, {request.params.arguments.url})
            ELSE Call(p, {ToolOp(request.params.name)},
                      {request.params.arguments.html_or_url})
  /\ UNCHANGED sessions

\* a variant in which the exception of the tool function is caught by
\* handleMcpRequest
toolsCallThrows_uncaught(p, bodies) ==
  /\ http[p].stage = "reading"
  /\ \E b \in bodies :
       \E request \in {parseRequest(b)},
          x \in {[http[p] EXCEPT !.request.body = b]} :
         /\ RunsTool(request)
         /\ ~request.params.arguments.given
         /\ http' = [http EXCEPT ![p] =
              sendJson(x, 500,
                [ok |-> FALSE, error |-> <<"Cannot destructure property">>])]
  /\ calls' = [calls EXCEPT ![p] = @ + 1]
  /\ UNCHANGED <<pc, op, input, timer, awaited, result, origin, dom, prev,
                 fetches, loads, network, now>>
  /\ UNCHANGED sessions

\* tools/call with the name of a tool and no arguments: the tool function
\* throws on taking its argument apart, and the catch of
\* handleJsonRpcRequest answers.
toolsCallThrows(p, bodies) ==
  /\ http[p].stage = "reading"
  /\ \E b \in bodies :
       \E request \in {parseRequest(b)},
          x \in {[http[p] EXCEPT !.request.body = b]} :
         /\ RunsTool(request)
         /\ ~request.params.arguments.given
         /\ http' = [http EXCEPT ![p] =
              sendJson(x, 200,
                RpcError(request.id, -32603,
                  <<"Internal error: ", "Cannot destructure property">>))]
  /\ calls' = [calls EXCEPT ![p] = @ + 1]
  /\ UNCHANGED <<pc, op, input, timer, awaited, result, origin, dom, prev,
                 fetches, loads, network, now>>
  /\ UNCHANGED sessions

\* The tool function returns: its response is the text of the result.
toolsCallReturns(p) ==
  /\ http[p].stage = "calling"
  /\ pc[p] = "done"
  /\ http' = [http EXCEPT ![p] =
       sendJson(http[p], 200,
         RpcResult(parseRequest(http[p].request.body).id,
           [content |-> [type |-> "text", text |-> result[p]]]))]
  /\ UNCHANGED toolVars
  /\ UNCHANGED sessions

(***************************************************************************)
(* Requests of every method on every kind of target, served by one handler *)
(* of the stateless transport.                                             *)
(***************************************************************************)
HttpMethods == {"GET", "POST", "DELETE"}

Targets == {"/mcp", "/mcp?x=1", "/health", "/unknown", "/", "//"}

HttpRequests ==
  { [method |-> m, target |-> t, session |-> "none", body |-> "none"] :
      m \in HttpMethods, t \in Targets }

InitHttp == InitWith({1})

NextHttp ==
  \/ onRequest(1, HttpRequests)
  \/ handleMcpRequest(1, RequestBodies)
  \/ toolsCall(1, RequestBodies)
  \/ toolsCallThrows(1, RequestBodies)
  \/ FetchResponds(1, {200, 404}) /\ UNCHANGED transportVars
  \/ FetchTimesOut(1) /\ UNCHANGED transportVars
  \/ FetchThrows(1, {Thrown(TRUE, "TypeError", <<"fetch failed">>)}) /\ UNCHANGED transportVars
  \/ BodyArrives(1, {RequestPage}) /\ UNCHANGED transportVars
  \/ Resume(1) /\ UNCHANGED transportVars
  \/ ReturnFetched(1, ContentTypes) /\ UNCHANGED transportVars
  \/ toolsCallReturns(1)

SpecHttp == InitHttp /\ [][NextHttp]_vars

(***************************************************************************)
(* Properties of the stateless transport.                                  *)
(***************************************************************************)
\* the listener of the request is over: it answered, or it was rejected
Over(p) == http[p].stage \in {"ended", "rejected"}

\* the status that the path and the method of a request call for
StatusFollows(r, answer) ==
  CASE pathname(r.target) = "/mcp" /\ r.method = "POST" ->
         answer.status \in {200, 400, 500}
    [] pathname(r.target) = "/mcp" /\ r.method # "POST" ->
         answer.status = 405
    [] pathname(r.target) = "/health" /\ r.method = "GET" ->
         answer.status = 200 /\ answer.body.status = "healthy"
    [] pathname(r.target) = "/health" /\ r.method # "GET" ->
         answer.status = 405
    [] OTHER -> answer.status = 404

\* C15: in the stateless transport every request gets exactly one response,
\* and its status follows the path and the method: POST /mcp is handled as
\* JSON-RPC, another method on /mcp gets 405, GET /health gets 200 with the
\* status "healthy", another method on /health gets 405, and every other
\* path gets 404.
C15_OneResponseByPath ==
  \A p \in Procs :
    /\ Len(http[p].sent) <= 1
    /\ Over(p) =>
         /\ Len(http[p].sent) = 1
         /\ StatusFollows(http[p].request, http[p].sent[1])

\* the handler of a POST to /mcp answered a body that parsed as JSON
AnsweredJson(p) ==
  /\ http[p].stage = "ended"
  /\ pathname(http[p].request.target) = "/mcp"
  /\ http[p].request.method = "POST"
  /\ http[p].request.body \notin {"none", ReadFailure}
  /\ parseRequest(http[p].request.body).syntax = "ok"

\* the jsonrpc member of a parsed body is "2.0"
Versioned(q) == ~q.null /\ ~Not(q.jsonrpc) /\ q.jsonrpc = V2

UnknownMethod(q) == q.method \notin {"initialize", "tools/list", "tools/call"}

UnknownTool(q) == q.method = "tools/call" /\ q.params.name \notin toolNames

\* the response carries the id of the request
SameId(q, body) ==
  IF q.id = JSUndefined
  THEN "id" \notin DOMAIN body
  ELSE "id" \in DOMAIN body /\ body.id = q.id

IsRpcError(body, code) ==
  /\ "jsonrpc" \in DOMAIN body
  /\ "error" \in DOMAIN body
  /\ "result" \notin DOMAIN body
  /\ body.error.code = code

\* the answer that the version of the request calls for
RpcAnswer(p, q, answer) ==
  IF Versioned(q)
  THEN /\ answer.status = 200
       /\ SameId(q, answer.body)
       /\ (UnknownMethod(q) \/ UnknownTool(q)) =>
            /\ IsRpcError(answer.body, -32601)
            /\ calls[p] = 0
            /\ pc[p] = "idle"
  ELSE /\ answer.status = 400
       /\ IsRpcError(answer.body, -32600)

\* C16: in the stateless transport a POST /mcp body whose jsonrpc member is
\* missing or not "2.0" is answered with HTTP 400 and the JSON-RPC error
\* -32600; a body whose jsonrpc is "2.0" is answered with HTTP 200 and a
\* response whose id is the id of the request, and an unknown method and an
\* unknown tool name both give the error -32601 without any tool function
\* being invoked.
C16_JsonRpcAnswers ==
  \A p \in Procs :
    AnsweredJson(p) =>
      RpcAnswer(p, parseRequest(http[p].request.body), http[p].sent[1])

\* the part of it that holds: the same for every body but the JSON null
JsonRpcAnswersObjects ==
  \A p \in Procs :
    (AnsweredJson(p) /\ ~parseRequest(http[p].request.body).null) =>
      RpcAnswer(p, parseRequest(http[p].request.body), http[p].sent[1])

\* a body that is the JSON null, which has no jsonrpc member, was answered
C16_Witness ==
  \E p \in Procs :
    /\ AnsweredJson(p)
    /\ parseRequest(http[p].request.body).null
    /\ http[p].sent[1].status = 500

(***************************************************************************)
(* The session transport (unnamed/part_004).  The sessions of the store    *)
(* are made and served by the streamable-HTTP transport of the SDK, a      *)
(* collaborator: what it answers, and whether it opens or closes a         *)
(* session, is any of the outcomes it has.                                 *)
(***************************************************************************)
\* the ids that the generator of session ids draws from
SessionIds == {"s1", "s2"}

\* if (sessionId), were the empty header taken for an id
HasSessionId_anyHeader(r) == r.session # "none"

\* if (sessionId): the header is there and is not the empty string
HasSessionId(r) == r.session \notin {"none", ""}

\* res.statusCode = status; res.end(text)
end(x, statusCode, text) ==
  [x EXCEPT !.sent = Append(@, [status |-> statusCode, body |-> text]),
            !.stage = "ended"]

\* The listener of startHttpTransport up to its first await: the target is
\* parsed, and for /mcp handleMcpRequest looks the session up: an id that
\* the store does not hold is answered 404, an id of the store is handed to
\* the transport of its session, a POST without an id starts a new session
\* and anything else is answered 400.
startHttpTransport(p, requests) ==
  /\ http[p].stage = "none"
  /\ \E r \in requests :
       \E x \in {[http[p] EXCEPT !.request = r]} :
         http' = [http EXCEPT ![p] =
           IF UrlThrows(r.target)
           THEN [x EXCEPT !.stage = "rejected"]
           ELSE CASE pathname(r.target) = "/mcp" /\ HasSessionId(r)
                       /\ r.session \notin sessions ->
                       end(x, 404, "Session not found")
                  [] pathname(r.target) = "/mcp" /\ HasSessionId(r)
                       /\ r.session \in sessions ->
                       [x EXCEPT !.stage = "session"]
                  [] pathname(r.target) = "/mcp" /\ ~HasSessionId(r)
                       /\ r.method = "POST" ->
                       [x EXCEPT !.stage = "connecting"]
                  [] pathname(r.target) = "/mcp" /\ ~HasSessionId(r)
                       /\ r.method # "POST" ->
                       end(x, 400, "Invalid request")
                  [] pathname(r.target) = "/health" ->
                       handleHealthCheck(x)
                  [] OTHER -> end(x, 404, "Not Found")]
  /\ UNCHANGED toolVars
  /\ UNCHANGED sessions

\* createNewSession after its awaits: the transport took the request as an
\* initialization and stored a session under a fresh id, or it refused the
\* request, or it threw and the catch answered.
createNewSession(p) ==
  /\ http[p].stage = "connecting"
  /\ \/ \E id \in SessionIds \ sessions :
          /\ sessions' = sessions \cup {id}
          /\ http' = [http EXCEPT ![p] = end(http[p], 200, id)]
     \/ /\ http' = [http EXCEPT ![p] = end(http[p], 400, "Bad Request")]
        /\ UNCHANGED sessions
     \/ /\ http' = [http EXCEPT ![p] = end(http[p], 500, "Internal server error")]
        /\ UNCHANGED sessions
  /\ UNCHANGED toolVars

\* a variant in which the close of a transport leaves the store as it is
sessionHandles_keepsClosed(p) ==
  /\ http[p].stage = "session"
  /\ \/ /\ http[p].request.method = "DELETE"
        /\ http' = [http EXCEPT ![p] = end(http[p], 200, "closed")]
     \/ /\ http[p].request.method # "DELETE"
        /\ \E statusCode \in {200, 400} :
             http' = [http EXCEPT ![p] = end(http[p], statusCode, "served")]
  /\ UNCHANGED sessions
  /\ UNCHANGED toolVars

\* The transport of the session serves the request: it answers it, and the
\* DELETE of a session closes it, which takes it out of the store.
sessionHandles(p) ==
  /\ http[p].stage = "session"
  /\ \/ /\ http[p].request.method = "DELETE"
        /\ sessions' = sessions \ {http[p].request.session}
        /\ http' = [http EXCEPT ![p] = end(http[p], 200, "closed")]
     \/ /\ http[p].request.method # "DELETE"
        /\ \E statusCode \in {200, 400} :
             http' = [http EXCEPT ![p] = end(http[p], statusCode, "served")]
        /\ UNCHANGED sessions
  /\ UNCHANGED toolVars

\* The exchange is over and the next request is awaited.
nextRequest(p) ==
  /\ http[p].stage \in {"ended", "rejected"}
  /\ http' = [http EXCEPT ![p] = NoExchange]
  /\ UNCHANGED toolVars
  /\ UNCHANGED sessions

(***************************************************************************)
(* Requests with and without session ids, from concurrent clients.         *)
(***************************************************************************)
SessionHeaders == {"none", "", "s1", "zz"}

SessionRequests ==
  { [method |-> m, target |-> "/mcp", session |-> s, body |-> "none"] :
      m \in HttpMethods, s \in SessionHeaders }
  \cup
  { [method |-> "GET", target |-> t, session |-> "zz", body |-> "none"] :
      t \in {"/health", "/unknown", "//"} }

InitSession == InitWith({})

NextSession ==
  \E p \in Procs :
    \/ startHttpTransport(p, SessionRequests)
    \/ createNewSession(p)
    \/ sessionHandles(p)
    \/ nextRequest(p)

SpecSession == InitSession /\ [][NextSession]_vars

\* the handler of p answers, in this step, a request for /mcp
Answers(p) ==
  /\ http[p].stage # "ended"
  /\ http'[p].stage = "ended"
  /\ pathname(http'[p].request.target) = "/mcp"

\* the request carries a session id: a header that is not empty
CarriesSessionId(r) == r.session # "none" /\ r.session # ""

\* a request for /mcp is handled with its session id outside the store
UnknownSession(p) ==
  /\ http[p].stage = "none"
  /\ http'[p].stage # "none"
  /\ ~UrlThrows(http'[p].request.target)
  /\ pathname(http'[p].request.target) = "/mcp"
  /\ CarriesSessionId(http'[p].request)
  /\ http'[p].request.session \notin sessions

\* C17: in the session transport a /mcp request that carries a session id
\* which the store does not hold is answered 404 and creates no session,
\* whatever its method; a /mcp request without a session id creates a new
\* session only when it is a POST, and is otherwise answered 400.
C17_SessionLookup ==
  [][\A p \in Procs :
       /\ UnknownSession(p) =>
            /\ http'[p].stage = "ended"
            /\ http'[p].sent = << [status |-> 404, body |-> "Session not found"] >>
            /\ sessions' = sessions
       /\ (http'[p] # http[p] /\ ~(sessions' \subseteq sessions)) =>
            /\ ~CarriesSessionId(http[p].request)
            /\ http[p].request.method = "POST"
            /\ pathname(http[p].request.target) = "/mcp"
       /\ (http[p].stage = "none" /\ http'[p].stage # "none"
             /\ ~UrlThrows(http'[p].request.target)
             /\ pathname(http'[p].request.target) = "/mcp"
             /\ ~CarriesSessionId(http'[p].request)
             /\ http'[p].request.method # "POST") =>
            /\ http'[p].stage = "ended"
            /\ http'[p].sent = << [status |-> 400, body |-> "Invalid request"] >>
            /\ sessions' = sessions]_vars

\* with a session in the store, a request with another id was answered 404,
\* while a POST without an id is about to open a session
C17_Witness ==
  /\ sessions # {}
  /\ \E p, q \in Procs :
       /\ http[p].stage = "ended"
       /\ CarriesSessionId(http[p].request)
       /\ http[p].request.session \notin sessions
       /\ http[p].request.method # "POST"
       /\ http[p].sent[1].status = 404
       /\ http[q].stage = "connecting"

(***************************************************************************)
(* Header resolution, row extraction and emission of extract_tables.       *)
(***************************************************************************)
RowsBelow(T, t) == Find(T, t, {"tr"})

CellsOf(T, e) == Find(T, e, {"th", "td"})

\* the rows below a table that stand in a thead below it
HeaderRows(T, t) ==
  SelectSeq(RowsBelow(T, t),
            LAMBDA r : \E h \in Parents(T, r, "thead") : t \in Ancestors(T.nodes, h))

EmptyStrings(n) == [k \in 1..n |-> Empty]

\* rules (b) and (c): the first row of the table
FirstRowHeaders(T, t) ==
  IF RowsBelow(T, t) = <<>> THEN <<>>
  ELSE IF Find(T, RowsBelow(T, t)[1], {"th"}) # <<>>
  THEN CellTexts(T, CellsOf(T, RowsBelow(T, t)[1]))
  ELSE EmptyStrings(Len(CellsOf(T, RowsBelow(T, t)[1])))

\* the headers when rule (a) reads the cells of the thead
HeadersByContainer(T, t) ==
  IF Find(T, t, {"thead"}) # <<>>
  THEN CellTexts(T, CellsOf(T, Find(T, t, {"thead"})[1]))
  ELSE FirstRowHeaders(T, t)

\* the headers when rule (a) reads the cells of the first row of a thead
HeadersByHeaderRow(T, t) ==
  IF HeaderRows(T, t) # <<>>
  THEN CellTexts(T, CellsOf(T, HeaderRows(T, t)[1]))
  ELSE FirstRowHeaders(T, t)

\* rule (b) applies: the first row is the header row
FirstRowIsHeader(T, t, ruleA) ==
  /\ ~ruleA
  /\ RowsBelow(T, t) # <<>>
  /\ Find(T, RowsBelow(T, t)[1], {"th"}) # <<>>

\* the rows with cells among the rows from the k-th on
RowsWithCells(T, t, k) ==
  SelectSeq(SubSeq(RowsBelow(T, t), k, Len(RowsBelow(T, t))),
            LAMBDA r : CellsOf(T, r) # <<>>)

\* padded is s with empty strings added at its end
IsPadded(padded, s) ==
  /\ Len(padded) >= Len(s)
  /\ \A k \in 1..Len(padded) :
       padded[k] = IF k <= Len(s) THEN s[k] ELSE Empty

\* C18 as stated: the headers of a record are, up to padding, (a) the cells
\* of the header-row container (thead) of its table when it has one, (b)
\* else all the cells of the first row when that row has a th, the row
\* being left out of rows, (c) else one empty string for each cell of the
\* first row.
C18_HeaderRules ==
  \A p \in Procs :
    TablesDone(p) =>
      \A k \in 1..Len(origin[p]) :
        /\ IsPadded(result[p].data.tables[k].headers,
                    HeadersByContainer(dom[p], origin[p][k]))
        /\ FirstRowIsHeader(dom[p], origin[p][k],
                            Find(dom[p], origin[p][k], {"thead"}) # <<>>)
             => Len(result[p].data.tables[k].rows)
                  = Len(RowsWithCells(dom[p], origin[p][k], 2))

\* C18, amended: the headers of a record are, up to padding, (a) the cells
\* of the first row that stands in a thead of its table when there is such
\* a row, (b) else all the cells of the first row when that row has a th,
\* the row being left out of rows, (c) else one empty string for each cell
\* of the first row.
C18_HeaderRulesFirstHeaderRow ==
  \A p \in Procs :
    TablesDone(p) =>
      \A k \in 1..Len(origin[p]) :
        /\ IsPadded(result[p].data.tables[k].headers,
                    HeadersByHeaderRow(dom[p], origin[p][k]))
        /\ FirstRowIsHeader(dom[p], origin[p][k],
                            HeaderRows(dom[p], origin[p][k]) # <<>>)
             => Len(result[p].data.tables[k].rows)
                  = Len(RowsWithCells(dom[p], origin[p][k], 2))

\* a record whose table has a thead of two rows with cells over a row: its
\* headers are the cells of the first of the two
C18_Witness ==
  \E p \in Procs :
    /\ TablesDone(p)
    /\ \E k \in 1..Len(origin[p]) :
         /\ Len(HeaderRows(dom[p], origin[p][k])) > 1
         /\ CellsOf(dom[p], HeaderRows(dom[p], origin[p][k])[2]) # <<>>
         /\ \E h \in 1..Len(result[p].data.tables[k].headers) :
              result[p].data.tables[k].headers[h] # Empty
         /\ result[p].data.tables[k].rows # <<>>

\* the rows that the rule of row extraction lets contribute: those outside
\* every thead, with a cell, but for a first row taken as the header row
ContributingRows(T, t) ==
  SelectSeq(RowsBelow(T, t),
            LAMBDA r : /\ Parents(T, r, "thead") = {}
                       /\ CellsOf(T, r) # <<>>
                       /\ ~(/\ FirstRowIsHeader(T, t, HeaderRows(T, t) # <<>>)
                            /\ r = RowsBelow(T, t)[1]))

\* C19: the rows of a record are, in document order and up to padding, one
\* entry for each row of its table that is not inside a thead and was not
\* taken as the header row under rule (b), made of the texts of all its th
\* and td cells in document order; a row without cells gives no entry.
C19_RowExtraction ==
  \A p \in Procs :
    TablesDone(p) =>
      \A k \in 1..Len(origin[p]) :
        /\ Len(result[p].data.tables[k].rows)
             = Len(ContributingRows(dom[p], origin[p][k]))
        /\ \A i \in 1..Len(result[p].data.tables[k].rows) :
             IsPadded(result[p].data.tables[k].rows[i],
                      CellTexts(dom[p],
                        CellsOf(dom[p], ContributingRows(dom[p], origin[p][k])[i])))

\* a record with an entry from a row that holds a th, of a table with a row
\* that gives no entry: one without cells, one in a thead or the header row
C19_Witness ==
  \E p \in Procs :
    /\ TablesDone(p)
    /\ \E k \in 1..Len(origin[p]) :
         /\ Len(result[p].data.tables[k].rows) >= 1
         /\ \E i \in 1..Len(ContributingRows(dom[p], origin[p][k])) :
              Find(dom[p], ContributingRows(dom[p], origin[p][k])[i], {"th"}) # <<>>
         /\ \E r \in Descendants(dom[p], origin[p][k]) :
              /\ dom[p].nodes[r].tag = "tr"
              /\ \/ CellsOf(dom[p], r) = <<>>
                 \/ Parents(dom[p], r, "thead") # {}
                 \/ FirstRowIsHeader(dom[p], origin[p][k],
                                     HeaderRows(dom[p], origin[p][k]) # <<>>)

\* the data tables of a document, in document order
DataTables(T) == SelectSeq(Query(T, {"table"}), LAMBDA t : ~isLayoutTable(T, t))

\* the emission rule: a header with text, or a row
HasContent(T, t) ==
  \/ \E h \in Range(HeadersByHeaderRow(T, t)) : h # Empty
  \/ ContributingRows(T, t) # <<>>

\* C20: the records of a response are those of the data tables with a
\* header cell that is not empty or with a row, in document order, and
\* count is their number; a table that fails the rule leaves no record and
\* no warning of its own: the warnings depend on count alone.
C20_EmissionRule ==
  \A p \in Procs :
    TablesDone(p) =>
      /\ origin[p] = SelectSeq(DataTables(dom[p]),
                               LAMBDA t : HasContent(dom[p], t))
      /\ Len(result[p].data.tables) = Len(origin[p])
      /\ result[p].data.count = Len(origin[p])
      /\ result[p].meta.warnings =
           IF result[p].data.count = 0 THEN <<NoTablesWarning>> ELSE <<>>

\* a response with a record of headers alone, for a document with a data
\* table that fails the rule
C20_Witness ==
  \E p \in Procs :
    /\ TablesDone(p)
    /\ result[p].data.count >= 1
    /\ result[p].meta.warnings = <<>>
    /\ \E k \in 1..Len(origin[p]) : result[p].data.tables[k].rows = <<>>
    /\ \E t \in Range(DataTables(dom[p])) :
         /\ t \notin Range(origin[p])
         /\ ~HasContent(dom[p], t)

(***************************************************************************)
(* The classification of tables.                                           *)
(***************************************************************************)
LayoutPatterns == {"layout", "wrapper", "container", "frame"}

\* the three conditions of a layout table, read off the attributes and the
\* ancestors of the element
LayoutByRule(T, t) ==
  \/ /\ "role" \in DOMAIN T.nodes[t].attrs
     /\ T.nodes[t].attrs["role"] \in {<<"presentation">>, <<"none">>}
  \/ /\ "class" \in DOMAIN T.nodes[t].attrs
     /\ \E pattern \in LayoutPatterns :
          Includes(toLowerCase(T.nodes[t].attrs["class"]), <<pattern>>)
  \/ Cardinality({a \in Ancestors(T.nodes, t) : T.nodes[a].tag = "table"}) >= 2

\* C21: a table is a layout table, and has no record, if and only if its
\* role is presentation or none, or its class contains layout, wrapper,
\* container or frame in any case, or it has two table ancestors or more:
\* the records of a response are those of the other tables that have
\* content, so that a table inside one table alone, without such a role or
\* class, is a data table.
C21_LayoutClassification ==
  \A p \in Procs :
    TablesDone(p) =>
      /\ \A t \in TableElements(dom[p]) :
           isLayoutTable(dom[p], t) <=> LayoutByRule(dom[p], t)
      /\ origin[p] = SelectSeq(Query(dom[p], {"table"}),
                       LAMBDA t : ~LayoutByRule(dom[p], t) /\ HasContent(dom[p], t))

\* a table left out for a class that holds a pattern with a capital inside
\* a longer name, and a record of a table that stands inside one table
C21_Witness ==
  \E p \in Procs :
    /\ TablesDone(p)
    /\ \E t \in TableElements(dom[p]) :
         /\ "role" \notin DOMAIN dom[p].nodes[t].attrs
         /\ "class" \in DOMAIN dom[p].nodes[t].attrs
         /\ \A pattern \in LayoutPatterns :
              ~Includes(dom[p].nodes[t].attrs["class"], <<pattern>>)
         /\ Len(dom[p].nodes[t].attrs["class"]) > 1
         /\ HasContent(dom[p], t)
         /\ t \notin Range(origin[p])
    /\ \E t \in Range(origin[p]) :
         Cardinality(Parents(dom[p], t, "table")) = 1

(***************************************************************************)
(* The content selector and the boilerplate filter on documents of marked  *)
(* blocks: up to MaxBlocks elements, side by side or each inside the one   *)
(* before, each with a paragraph of its own text.  The blocks carry the    *)
(* tags, roles, ids and classes that the selectors of the two lists look   *)
(* at, and ids and classes that only contain the name of a selector.       *)
(***************************************************************************)
Blocks ==
  { [tag |-> "main", attrs |-> NoAttrs],
    [tag |-> "article", attrs |-> NoAttrs],
    [tag |-> "nav", attrs |-> NoAttrs],
    [tag |-> "div", attrs |-> NoAttrs],
    [tag |-> "div", attrs |-> [role |-> <<"main">>]],
    [tag |-> "div", attrs |-> [id |-> <<"content">>]],
    [tag |-> "div", attrs |-> [class |-> <<"content">>]],
    [tag |-> "div", attrs |-> [class |-> <<"big", " ", "post">>]],
    [tag |-> "div", attrs |-> [class |-> <<"content", "-area">>]],
    [tag |-> "div", attrs |-> [class |-> <<"sidebar">>]],
    [tag |-> "div", attrs |-> [class |-> <<"left-", "sidebar">>]],
    [tag |-> "div", attrs |-> [id |-> <<"nav">>]],
    [tag |-> "div", attrs |-> [id |-> <<"top-", "nav">>]],
    [tag |-> "div", attrs |-> [id |-> <<"cookie">>]] }

BlockText(k) == CASE k = 1 -> <<"A">> [] k = 2 -> <<"B">> [] k = 3 -> <<"C">>
                  [] OTHER -> <<"D">>

\* the k-th block is element 2k - 1 and its paragraph element 2k
BlockDoc(blocks, nested) ==
  [j \in 1..(2 * Len(blocks)) |->
     IF j % 2 = 1
     THEN Node(blocks[(j + 1) \div 2].tag,
               IF nested /\ j > 1 THEN j - 2 ELSE 0,
               blocks[(j + 1) \div 2].attrs, <<>>)
     ELSE Node("p", j - 1, NoAttrs, BlockText(j \div 2))]

BlockDocs(n) ==
  UNION { {BlockDoc(blocks, nested) : blocks \in [1..m -> Blocks],
                                     nested \in BOOLEAN} : m \in 1..n }

ContentInputs(n) == {Markup(d) : d \in BlockDocs(n)}

InitContent == InitWith({1})

NextContent ==
  \/ Call(1, {"markdown"}, ContentInputs(MaxBlocks)) /\ UNCHANGED transportVars
  \/ Resume(1) /\ UNCHANGED transportVars
  \/ Tick /\ UNCHANGED transportVars

SpecContent == InitContent /\ [][NextContent]_vars

\* the elements of the filtered tree that the k-th matcher matches
Matching(T, k) == {i \in T.live : Matches(T, i, mainSelectors[k])}

Least(S) == CHOOSE i \in S : \A j \in S : i <= j

\* the first element in document order of the first matcher in priority
\* order that matches any; 0 is the body
MainByPriority(T) ==
  IF \A k \in 1..Len(mainSelectors) : Matching(T, k) = {}
  THEN 0
  ELSE Least(Matching(T, Least({k \in 1..Len(mainSelectors) : Matching(T, k) # {}})))

\* C22: the markdown is that of the element which the content selector
\* picks on the filtered tree: the first element in document order of the
\* first matcher, in the order of the list, that matches any element (so an
\* element of a later matcher never wins over one of an earlier matcher,
\* even when it stands first in the document), and the body when no
\* matcher matches.
C22_SelectorPriority ==
  \A p \in Procs :
    MarkdownDone(p) =>
      /\ findMainContent(dom[p]) = MainByPriority(dom[p])
      /\ result[p].data.markdown = cleanUp(turndown(dom[p], MainByPriority(dom[p])))

\* an element of a later matcher stands before the element of an earlier
\* matcher and outside it: the markdown has the text of the second alone
C22_Witness ==
  \E p \in Procs :
    /\ MarkdownDone(p)
    /\ \E i, j \in dom[p].live, k \in 1..Len(mainSelectors) :
         /\ i < j
         /\ i \notin Ancestors(dom[p].nodes, j)
         /\ j \in Matching(dom[p], k)
         /\ \A h \in 1..k : i \notin Matching(dom[p], h)
         /\ \E h \in (k + 1)..Len(mainSelectors) : i \in Matching(dom[p], h)
         /\ MainByPriority(dom[p]) = j
         /\ Includes(result[p].data.markdown, <<"B">>)
         /\ ~Includes(result[p].data.markdown, <<"A">>)

\* the patterns of the deny-list as the filter is described
DenyPatterns ==
  { <<"nav">>, <<"menu">>, <<"sidebar">>, <<"ad">>, <<"ad", "s">>,
    <<"ad", "vert">>, <<"social">>, <<"comment">>, <<"related">>,
    <<"footer">>, <<"header">>, <<"cookie">>, <<"popup">>, <<"modal">>,
    <<"newsletter">>, <<"subscribe">> }

ContainsPattern(T, i) ==
  \E pat \in DenyPatterns :
    \/ Includes(OrElse(Attr(T, i, "id"), <<>>), pat)
    \/ Includes(OrElse(Attr(T, i, "class"), <<>>), pat)

\* C23 as stated: after the filter no element is left whose id or class
\* contains a deny-list pattern as a substring.
C23_SubstringRemoval ==
  \A p \in Procs :
    MarkdownDone(p) =>
      \A i \in Loaded(p).live :
        ContainsPattern(Loaded(p), i) => i \notin dom[p].live

\* the names of the deny-list
DenyTags ==
  {"script", "style", "noscript", "iframe", "nav", "header", "footer",
   "aside", "form", "button", "input", "select", "textarea"}

DenyClasses ==
  { <<"nav">>, <<"nav", "bar">>, <<"nav", "igation">>, <<"menu">>,
    <<"sidebar">>, <<"ad", "vert", "isement">>, <<"ad">>, <<"ad", "s">>,
    <<"ad", "vert">>, <<"social">>, <<"social", "-", "share">>, <<"share">>,
    <<"comment", "s">>, <<"comment">>, <<"related">>,
    <<"related", "-", "post", "s">>, <<"footer">>, <<"header">>,
    <<"cookie">>, <<"popup">>, <<"modal">>, <<"newsletter">>,
    <<"subscribe">> }

DenyIds ==
  { <<"nav">>, <<"nav", "bar">>, <<"nav", "igation">>, <<"menu">>,
    <<"sidebar">>, <<"footer">>, <<"header">>, <<"comment", "s">>, <<"ad">>,
    <<"ad", "s">> }

DenyRoles ==
  { <<"navigation">>, <<"banner">>, <<"contentinfo">>, <<"complementary">> }

NamedInDenyList(T, i) ==
  \/ Tokens(OrElse(Attr(T, i, "class"), <<>>)) \cap DenyClasses # {}
  \/ Attr(T, i, "id") \in DenyIds

ByDenyList(T, i) ==
  \/ T.nodes[i].tag \in DenyTags
  \/ Attr(T, i, "role") \in DenyRoles
  \/ Attr(T, i, "aria-hidden") = <<"true">>
  \/ NamedInDenyList(T, i)

\* C23, amended: the filter removes, with all that is below it, every
\* element that has a class token equal to a class name of the deny-list
\* or an id equal to an id name of the deny-list, and an element leaves the
\* tree only when it or an element above it has a tag, a role, an
\* aria-hidden mark, a class token or an id of the list: an id or class
\* that only contains a pattern stays.
C23_TokenRemoval ==
  \A p \in Procs :
    MarkdownDone(p) =>
      \A i \in Loaded(p).live :
        /\ NamedInDenyList(Loaded(p), i) => i \notin dom[p].live
        /\ i \notin dom[p].live <=>
             \E a \in {i} \cup Ancestors(dom[p].nodes, i) :
               ByDenyList(Loaded(p), a)

\* one element is removed for its class token or id, another whose class
\* or id only contains a pattern stays and its text is in the markdown
C23_Witness ==
  \E p \in Procs :
    /\ MarkdownDone(p)
    /\ \E i, j \in Loaded(p).live :
         /\ NamedInDenyList(Loaded(p), i)
         /\ i \notin dom[p].live
         /\ ContainsPattern(Loaded(p), j)
         /\ ~NamedInDenyList(Loaded(p), j)
         /\ j \in dom[p].live
         /\ Includes(result[p].data.markdown, <<"B">>)

(***************************************************************************)
(* extract_metadata on documents of author sources: up to MaxAuthorNodes   *)
(* meta elements, JSON-LD blocks and author links in any order.            *)
(***************************************************************************)
AuthorElements ==
  { Meta("name", <<"author">>, <<"Fay">>),
    Meta("property", <<"author">>, <<"Gus">>),
    Meta("property", <<"article:", "author">>, <<"Eve">>),
    JsonLd(JsonAuthorString), JsonLd(JsonAuthorObject), JsonLd(JsonCreator),
    JsonLd(JsonNull),
    Node("a", 0, [rel |-> <<"author">>], <<" ", "Dee", "\n">>),
    Node("a", 0, [rel |-> <<"author">>], <<" ">>) }

RECURSIVE AuthorDocsUpTo(_)
AuthorDocsUpTo(n) ==
  IF n = 0 THEN {<<>>}
  ELSE Only({ S \cup {Append(d, e) : d \in S, e \in AuthorElements} :
              S \in {AuthorDocsUpTo(n - 1)} })

AuthorInputs(n) == {Markup(d) : d \in AuthorDocsUpTo(n) \ {<<>>}}

InitAuthor == InitWith({1})

NextAuthor ==
  \/ Call(1, {"metadata"}, AuthorInputs(MaxAuthorNodes)) /\ UNCHANGED transportVars
  \/ Resume(1) /\ UNCHANGED transportVars
  \/ Tick /\ UNCHANGED transportVars

SpecAuthor == InitAuthor /\ [][NextAuthor]_vars

\* the contents of the meta elements that have the attribute with the
\* value, and a content, in document order
MetaContents(T, a, v) ==
  LET els == SelectSeq([i \in 1..Len(T.nodes) |-> i],
                       LAMBDA i : /\ T.nodes[i].tag = "meta"
                                  /\ Attr(T, i, a) = v
                                  /\ ~Falsy(Attr(T, i, "content")))
  IN  [k \in 1..Len(els) |-> Attr(T, els[k], "content")]

\* the key of a meta element: its name, without one its property, without
\* that its itemprop
MetaKey(T, i) ==
  IF ~Falsy(Attr(T, i, "name")) THEN Attr(T, i, "name")
  ELSE IF ~Falsy(Attr(T, i, "property")) THEN Attr(T, i, "property")
  ELSE Attr(T, i, "itemprop")

KeyedContents(T, key) ==
  LET els == SelectSeq([i \in 1..Len(T.nodes) |-> i],
                       LAMBDA i : /\ T.nodes[i].tag = "meta"
                                  /\ MetaKey(T, i) = key
                                  /\ ~Falsy(Attr(T, i, "content")))
  IN  [k \in 1..Len(els) |-> Attr(T, els[k], "content")]

\* the values of the JSON-LD blocks that parse, in document order
ParsedBlocks(T) ==
  LET parsing == SelectSeq(JsonLdBlocks(T), LAMBDA b : Parses(T, b))
  IN  [k \in 1..Len(parsing) |-> JSONparse(T.nodes[parsing[k]].text).value]

\* the author field of a block: a string, or the name of an author object
AuthorField(v) ==
  IF Field(v, "author").t = "string" THEN Field(v, "author").s
  ELSE IF Field(Field(v, "author"), "name").t = "string"
  THEN Field(Field(v, "author"), "name").s
  ELSE Undefined

CreatorField(v) ==
  IF Field(v, "creator").t = "string" THEN Field(v, "creator").s ELSE Undefined

FirstIn(S) == CHOOSE k \in S : \A j \in S : k <= j

\* the trimmed text of the first a[rel=author] link, if it has any
AuthorLink(T) ==
  LET links == SelectSeq([i \in 1..Len(T.nodes) |-> i],
                         LAMBDA i : /\ T.nodes[i].tag = "a"
                                    /\ Attr(T, i, "rel") = <<"author">>)
  IN  IF links # <<>> /\ Trim(TextOf(T, links[1])) # <<>>
      THEN Trim(TextOf(T, links[1]))
      ELSE Undefined

\* the chain as stated: the author fields of all blocks before any creator
AuthorAsStated(T) ==
  LET named == MetaContents(T, "name", <<"author">>)
      article == MetaContents(T, "property", <<"article:", "author">>)
      blocks == ParsedBlocks(T)
      authors == {k \in 1..Len(blocks) : AuthorField(blocks[k]) # Undefined}
      creators == {k \in 1..Len(blocks) : CreatorField(blocks[k]) # Undefined}
  IN  IF named # <<>> THEN named[Len(named)]
      ELSE IF article # <<>> THEN article[Len(article)]
      ELSE IF authors # {} THEN AuthorField(blocks[FirstIn(authors)])
      ELSE IF creators # {} THEN CreatorField(blocks[FirstIn(creators)])
      ELSE AuthorLink(T)

\* the chain with the meta elements by key and the JSON-LD blocks one by
\* one: the first block that has an author field or a creator string gives
\* the author, its author field before its creator
AuthorByBlock(T) ==
  LET named == KeyedContents(T, <<"author">>)
      article == KeyedContents(T, <<"article:", "author">>)
      blocks == ParsedBlocks(T)
      giving == {k \in 1..Len(blocks) :
                   \/ AuthorField(blocks[k]) # Undefined
                   \/ CreatorField(blocks[k]) # Undefined}
  IN  IF named # <<>> THEN named[Len(named)]
      ELSE IF article # <<>> THEN article[Len(article)]
      ELSE IF giving # {}
      THEN IF AuthorField(blocks[FirstIn(giving)]) # Undefined
           THEN AuthorField(blocks[FirstIn(giving)])
           ELSE CreatorField(blocks[FirstIn(giving)])
      ELSE AuthorLink(T)

\* C24 as stated: the author is the content of meta[name=author], else of
\* meta[property=article:author], else the author field of the first JSON-LD
\* block that has one, else the creator string of a JSON-LD block, else the
\* text of the first a[rel=author] link, else absent.
C24_AuthorChain ==
  \A p \in Procs :
    MetaDone(p) => result[p].data.author = AuthorAsStated(Loaded(p))

\* C24, amended: the author is the content of the last meta element keyed
\* author (by its name, without a name by its property, without that by its
\* itemprop), else of the last keyed article:author, else what the first
\* JSON-LD block with an author field or a creator string gives (its author
\* string or the name of its author object, without one its creator
\* string), else the text of the first a[rel=author] link, else absent.
C24_AuthorChainByBlock ==
  \A p \in Procs :
    MetaDone(p) => result[p].data.author = AuthorByBlock(Loaded(p))

\* a block with a creator stands before a block with an author, with no
\* meta element for the author: the creator is reported although a link
\* follows
C24_Witness ==
  \E p \in Procs :
    /\ MetaDone(p)
    /\ KeyedContents(Loaded(p), <<"author">>) = <<>>
    /\ KeyedContents(Loaded(p), <<"article:", "author">>) = <<>>
    /\ \E j, k \in 1..Len(ParsedBlocks(Loaded(p))) :
         /\ j < k
         /\ CreatorField(ParsedBlocks(Loaded(p))[j]) # Undefined
         /\ AuthorField(ParsedBlocks(Loaded(p))[k]) # Undefined
         /\ \A h \in 1..j : AuthorField(ParsedBlocks(Loaded(p))[h]) = Undefined
    /\ result[p].data.author = <<"Cy">>

\* the contents of the meta elements with the og: property of the key and
\* a content, in document order
OgContents(T, key) ==
  LET els == SelectSeq([i \in 1..Len(T.nodes) |-> i],
                       LAMBDA i : /\ T.nodes[i].tag = "meta"
                                  /\ Attr(T, i, "property") = <<"og:">> \o key
                                  /\ ~Falsy(Attr(T, i, "content")))
  IN  [k \in 1..Len(els) |-> Attr(T, els[k], "content")]

OgKeys(T) ==
  {Tail(T.nodes[i].attrs["property"]) :
     i \in {j \in 1..Len(T.nodes) :
              /\ T.nodes[j].tag = "meta"
              /\ ~Falsy(Attr(T, j, "property"))
              /\ Head(Attr(T, j, "property")) = "og:"
              /\ ~Falsy(Attr(T, j, "content"))}}

CallWithoutInput(p, ops) ==
  /\ pc[p] = "idle"
  /\ calls[p] < MaxCalls
  /\ \E o \in ops : op' = [op EXCEPT ![p] = o]
  /\ input' = [input EXCEPT ![p] = JSUndefined]
  /\ calls' = [calls EXCEPT ![p] = @ + 1]
  /\ loads' = [loads EXCEPT ![p] = 0]
  /\ origin' = [origin EXCEPT ![p] = <<>>]
  /\ network' = [network EXCEPT ![p] =
       Network("escaped", 0,
         Thrown(TRUE, "TypeError", <<"Cannot destructure property">>))]
  /\ result' = [result EXCEPT ![p] = NoResult]
  /\ pc' = [pc EXCEPT ![p] = "thrown"]
  /\ awaited' = [awaited EXCEPT ![p] = NoAwaited]
  /\ timer' = [timer EXCEPT ![p] = "none"]
  /\ fetches' = [fetches EXCEPT ![p] = 0]
  /\ UNCHANGED <<dom, prev, now>>

\* the catch block of the three operations
extractionCatch(error) ==
  IF error.isError
  THEN createErrorResponse("PARSE_ERROR",
         <<"Failed to parse HTML: ">> \o error.message, NoDetails)
  ELSE createErrorResponse("INTERNAL_ERROR",
         <<"An unknown error occurred during parsing">>, NoDetails)

\* The call after its await, with markup to load: cheerio.load throws, or
\* the document is loaded and a call of the extraction throws; the catch
\* block makes the response.
ExtractionThrows(p, errors) ==
  /\ pc[p] = "resume"
  /\ op[p] # "fetch_url"
  /\ awaited[p].error = NoResult
  /\ Trim(awaited[p].html.s) # <<>>
  /\ \E error \in errors, loaded \in BOOLEAN :
       /\ result' = [result EXCEPT ![p] = extractionCatch(error)]
       /\ network' = [network EXCEPT ![p] =
            Network(IF loaded THEN "extractor threw" ELSE "loader threw",
                    @.status, error)]
       /\ IF loaded
          THEN /\ dom' = [dom EXCEPT ![p] = cheerio_load(p, awaited[p].html)]
               /\ loads' = [loads EXCEPT ![p] = @ + 1]
          ELSE UNCHANGED <<dom, loads>>
  /\ pc' = [pc EXCEPT ![p] = "done"]
  /\ UNCHANGED <<op, input, timer, awaited, origin, prev, calls, fetches, now>>

ExtractionErrors ==
  {Thrown(TRUE, "RangeError", <<"Maximum call stack size exceeded">>),
   Thrown(TRUE, "TypeError", <<"x is not a function">>),
   Thrown(FALSE, "", <<"oops">>)}

InitFailure == InitWith({1})

NextFailure ==
  \/ Call(1, Ops, Pages \cup {JSUndefined, Str(<<" ">>, <<>>)}) /\ UNCHANGED transportVars
  \/ CallWithoutInput(1, Ops) /\ UNCHANGED transportVars
  \/ Resume(1) /\ UNCHANGED transportVars
  \/ ExtractionThrows(1, ExtractionErrors) /\ UNCHANGED transportVars
  \/ Return(1) /\ UNCHANGED transportVars
  \/ Tick /\ UNCHANGED transportVars

SpecFailure == InitFailure /\ [][NextFailure]_vars

\* C26: no exception leaves an extraction operation, and a failure raised
\* while the operation runs, other than a failure of the loader, comes back
\* as a failure envelope with the code INTERNAL_ERROR.
C26_CaughtAsInternalError ==
  \A p \in Procs :
    /\ pc[p] # "thrown"
    /\ (pc[p] = "done" /\ network[p].kind = "extractor threw")
         => /\ ~result[p].ok
            /\ result[p].error.code = "INTERNAL_ERROR"

\* an operation called without its input object has thrown, and no
\* envelope was returned
C26_Witness ==
  \E p \in Procs :
    /\ pc[p] = "thrown"
    /\ op[p] \in Ops
    /\ network[p].error.name = "TypeError"
    /\ result[p] = NoResult

(***************************************************************************)
(* The calls under fair scheduling: the steps of the program and the       *)
(* timer of a pending fetch are taken when they can be; the server is free *)
(* to send the headers and the body, or to send nothing more.              *)
(***************************************************************************)
\* the step of a call of an extraction operation after its await
Resumes(p) ==
  /\ pc[p] = "resume"
  /\ op[p] # "fetch_url"
  /\ pc' = [pc EXCEPT ![p] = "done"]

SpecLive ==
  /\ Spec
  /\ WF_vars(FetchTimesOut(1) /\ UNCHANGED transportVars)
  /\ WF_pc(Resumes(1))
  /\ WF_vars(ReturnFetched(1, ContentTypes) /\ UNCHANGED transportVars)

\* C27: a call that waits for the network, for the headers of the response
\* or for its body, returns in the end.
C27_FetchReturns ==
  \A p \in Procs : (pc[p] \in {"fetching", "reading"}) ~> (pc[p] = "done")

\* the headers of a response arrived and cleared the timer, and the call
\* waits for the body
C27_Witness ==
  \E p \in Procs :
    /\ pc[p] = "reading"
    /\ timer[p] = "cleared"
    /\ network[p].kind = "status"

(***************************************************************************)
(* Tables inside tables.                                                   *)
(***************************************************************************)
TableAncestors(T, e) == {a \in Ancestors(T.nodes, e) : T.nodes[a].tag = "table"}

\* the rows with cells anywhere below a table and outside every thead
BodyRows(T, n) ==
  {r \in 1..Len(T.nodes) :
     /\ T.nodes[r].tag = "tr"
     /\ n \in Ancestors(T.nodes, r)
     /\ \A a \in Ancestors(T.nodes, r) : T.nodes[a].tag # "thead"
     /\ \E c \in 1..Len(T.nodes) :
          T.nodes[c].tag \in {"th", "td"} /\ r \in Ancestors(T.nodes, c)}

\* the texts of the cells below a row, in document order
RowTexts(T, r) ==
  CellTexts(T, SelectSeq([c \in 1..Len(T.nodes) |-> c],
                         LAMBDA c : /\ T.nodes[c].tag \in {"th", "td"}
                                    /\ r \in Ancestors(T.nodes, c)))

HasRow(record, texts) ==
  \E i \in 1..Len(record.rows) : IsPadded(record.rows[i], texts)

\* C28: when a table with a record holds a table one level down that has
\* a record of its own, every row with cells of the inner table outside a
\* thead is a row of the record of the outer table, and is a row or the
\* headers of the record of the inner table: the texts of its cells are in
\* both records.
C28_NestedTableTwice ==
  \A p \in Procs :
    TablesDone(p) =>
      \A k, j \in 1..Len(origin[p]) :
        TableAncestors(dom[p], origin[p][j]) = {origin[p][k]} =>
          \A r \in BodyRows(dom[p], origin[p][j]) :
            /\ HasRow(result[p].data.tables[k], RowTexts(dom[p], r))
            /\ \/ HasRow(result[p].data.tables[j], RowTexts(dom[p], r))
               \/ IsPadded(result[p].data.tables[j].headers, RowTexts(dom[p], r))

\* the record of an outer table and the record of the table inside it both
\* have the text of a cell of the inner table
C28_Witness ==
  \E p \in Procs :
    /\ TablesDone(p)
    /\ \E k, j \in 1..Len(origin[p]) :
         /\ TableAncestors(dom[p], origin[p][j]) = {origin[p][k]}
         /\ \E r \in BodyRows(dom[p], origin[p][j]) :
              /\ \E x \in Range(RowTexts(dom[p], r)) : x # Empty
              /\ HasRow(result[p].data.tables[k], RowTexts(dom[p], r))
              /\ HasRow(result[p].data.tables[j], RowTexts(dom[p], r))

(***************************************************************************)
(* The session store.                                                      *)
(***************************************************************************)
\* the handler of p takes a step
Handles(p) == http'[p] # http[p]

\* the handler of p is at a /mcp request that carries a session id
AtSessionRequest(p) ==
  /\ http[p].stage \notin {"none", "rejected"}
  /\ pathname(http[p].request.target) = "/mcp"
  /\ CarriesSessionId(http[p].request)

\* the store gets an entry only from the handler of a POST for /mcp without
\* a session id, whose transport was initialized: one fresh id, answered 200
AddedByInitialization ==
  \A id \in sessions' \ sessions :
    \E p \in Procs :
      /\ Handles(p)
      /\ http[p].stage = "connecting"
      /\ http[p].request.method = "POST"
      /\ pathname(http[p].request.target) = "/mcp"
      /\ ~CarriesSessionId(http[p].request)
      /\ http'[p].sent = << [status |-> 200, body |-> id] >>
      /\ sessions' = sessions \cup {id}

\* a request handled with an id that the store does not hold is answered 404
GoneIsNotFound ==
  \A p \in Procs :
    UnknownSession(p) =>
      /\ http'[p].sent = << [status |-> 404, body |-> "Session not found"] >>
      /\ sessions' = sessions

CallsToolWithoutArguments(p) ==
  /\ pathname(http[p].request.target) = "/mcp"
  /\ http[p].request.method = "POST"
  /\ http[p].request.body \notin {"none", ReadFailure}
  /\ parseRequest(http[p].request.body).syntax = "ok"
  /\ Versioned(parseRequest(http[p].request.body))
  /\ parseRequest(http[p].request.body).method = "tools/call"
  /\ parseRequest(http[p].request.body).params.name \in toolNames
  /\ ~parseRequest(http[p].request.body).params.arguments.given

\* C30: in the stateless transport a tools/call request for a tool of the
\* server that has no arguments, on which the tool function throws, is
\* answered at once by handleJsonRpcRequest: one response, with the HTTP
\* status 200, the JSON-RPC error -32603 and the id of the request; the
\* exchange never waits for the tool and the 500 of the request handler is
\* never sent.
C30_ToolExceptionAnswered ==
  \A p \in Procs :
    CallsToolWithoutArguments(p) =>
      /\ http[p].stage \in {"reading", "ended"}
      /\ http[p].stage = "ended" =>
           /\ Len(http[p].sent) = 1
           /\ http[p].sent[1].status = 200
           /\ IsRpcError(http[p].sent[1].body, -32603)
           /\ SameId(parseRequest(http[p].request.body), http[p].sent[1].body)
           /\ calls[p] >= 1

\* extract_tables was called without arguments and the error -32603 was
\* sent with the id of the request
C30_Witness ==
  \E p \in Procs :
    /\ CallsToolWithoutArguments(p)
    /\ http[p].stage = "ended"
    /\ parseRequest(http[p].request.body).id # JSUndefined
    /\ http[p].sent[1].status = 200
    /\ http[p].sent[1].body.error.code = -32603
    /\ http[p].sent[1].body.id = parseRequest(http[p].request.body).id

====
